---------------------------- MODULE Spec2Model ----------------------------
(***************************************************************************)
(* The snapshot-aware immutable treap of lbcd.                             *)
(*                                                                         *)
(* Two copies of the treap are in the source tree:                         *)
(*   database/internal/treap/immutable.go: put/del take bumpGen, the       *)
(*     mutable variants pass 0, a SnapRecord holds prev/next only;         *)
(*   the copy that follows the adapter in rpcclient/examples/              *)
(*     lbcdblocknotify/adapter.go (from line 22): every write bumps the    *)
(*     generation, a SnapRecord is stamped with a generation, is reached   *)
(*     through a slot, a pointer to a pointer, and owns a deferred-recycle *)
(*     chain.                                                              *)
(* The tree algorithms of the two copies are the same text; they are       *)
(* modelled once, with bumpGen as a parameter.  Spec is the first copy,    *)
(* SpecGen the second.                                                     *)
(*                                                                         *)
(* Nodes, containers, snapshot records and slots are heap objects: each    *)
(* heap is a sequence and a pointer is an index into it, Nil being 0.      *)
(***************************************************************************)
EXTENDS Integers, Sequences, FiniteSets, TLC

VARIABLES
    nodes,      \* heap of treapNode
    pool,       \* nodePool: the nodes handed to putTreapNode, newest last
    ncalls,     \* number of calls made so far
    limit,      \* number of calls the caller makes at most
    imms,       \* heap of Immutable
    cur,        \* the container the caller writes through, the target of dest
    recs,       \* heap of SnapRecord
    slots,      \* heap of *SnapRecord cells pointed to by Immutable.snap and SnapRecord.rp
    amap,       \* ghost: the key/value map the writes on cur add up to
    last,       \* ghost: what the last call was given, returned and did
    mu,         \* snapRecordMutex, and where each thread is in its call
    bridge      \* the block-notification bridge of lbcdblocknotify

vars == <<nodes, pool, ncalls, limit, imms, cur, recs, slots, amap, last, mu, bridge>>

Nil == 0

\* Let(e, F) is F of the value of e: e is evaluated once and named.
Let(e, F(_)) == F(e)

----------------------------------------------------------------------------
(* Bounds of the model. *)

\* A behaviour makes at most MaxCalls calls of the library; the behaviours
\* of the specifications that look for a longer scenario make MaxCallsDeep,
\* those of the specification of snapshot scenarios MaxCallsSnap.
MaxCalls == 3
MaxCallsDeep == 4
MaxCallsSnap == 5
\* Those of the specification in which the caller goes back to a container
\* it took a snapshot of make MaxCallsBranch calls.
MaxCallsBranch == 6
\* At most MaxSnaps snapshot records are created in a behaviour.
MaxSnaps == 3

\* Keys are byte strings; these three differ in length and in first byte.
Keys == {<<1>>, <<1, 2>>, <<2>>}

\* A []byte: nil or a byte sequence.
NilBytes == [nil |-> TRUE, b |-> <<>>]
Bytes(s) == [nil |-> FALSE, b |-> s]

\* The values a caller passes: nil and a one-byte value.
Values == {NilBytes, Bytes(<<7>>)}

\* The priorities rand.Int() draws.
Priorities == {0, 1}

----------------------------------------------------------------------------
(* Byte strings. *)

len(v) == Len(v.b)

Min2(a, b) == IF a < b THEN a ELSE b

\* bytes.Compare: lexicographic order, -1, 0 or +1.
RECURSIVE CompareFrom(_, _, _)
CompareFrom(a, b, i) ==
    IF i > Min2(Len(a), Len(b))
    THEN (IF Len(a) < Len(b) THEN -1 ELSE IF Len(a) > Len(b) THEN 1 ELSE 0)
    ELSE IF a[i] < b[i] THEN -1
    ELSE IF a[i] > b[i] THEN 1
    ELSE CompareFrom(a, b, i + 1)

Compare(a, b) == CompareFrom(a, b, 1)

emptySlice == Bytes(<<>>)

----------------------------------------------------------------------------
(* treapNode, the node pool and the parent stack. *)

\* The fixed per-node overhead counted by nodeSize.
nodeFieldsSize == 10

recycleGeneration == -1

NewNode == [key |-> <<>>, value |-> NilBytes, priority |-> 0, generation |-> 0,
            left |-> Nil, right |-> Nil, next |-> Nil]

\* nodeSize: the fixed overhead plus the lengths of key and value.
nodeSize(n) == nodeFieldsSize + Len(n.key) + len(n.value)

\* The memory an operation works on: the node heap, the pool, and the nodes
\* this operation handed to the pool, each with the generation it had then.
Mem(ns, pl) == [nodes |-> ns, pool |-> pl, put |-> <<>>]

\* getTreapNode: a node from the pool (the newest one) or, when the pool is
\* empty, a new one; key, value, priority and generation are set and next is
\* cleared.
getTreapNode(m, key, value, priority, generation) ==
    LET fresh == m.pool = <<>>
        id == IF fresh THEN Len(m.nodes) + 1 ELSE m.pool[Len(m.pool)]
        ns == IF fresh THEN Append(m.nodes, NewNode) ELSE m.nodes
    IN [m |-> [m EXCEPT !.nodes = [ns EXCEPT ![id].key = key,
                                             ![id].value = value,
                                             ![id].priority = priority,
                                             ![id].generation = generation,
                                             ![id].next = Nil],
                        !.pool = IF fresh THEN <<>>
                                 ELSE SubSeq(m.pool, 1, Len(m.pool) - 1)],
        id |-> id]

\* putTreapNode: the child pointers are scrubbed and the node joins the pool.
putTreapNode(m, node) ==
    [m EXCEPT !.nodes[node].left = Nil,
              !.nodes[node].right = Nil,
              !.pool = Append(m.pool, node),
              !.put = Append(m.put, [node |-> node,
                                     generation |-> m.nodes[node].generation])]

\* parentStack: Push appends, At(0) is the newest entry, At(Len-1) the oldest,
\* an index out of range gives nil.
Push(s, node) == Append(s, node)
At(s, n) == IF n >= 0 /\ n < Len(s) THEN s[Len(s) - n] ELSE Nil
PopRest(s) == SubSeq(s, 1, Len(s) - 1)

----------------------------------------------------------------------------
(* Immutable. *)

newImmutable(root, count, totalSize, generation, snap) ==
    [root |-> root, count |-> count, totalSize |-> totalSize,
     generation |-> generation, snap |-> snap]

\* NewImmutable: &Immutable{}.
EmptyImmutable == newImmutable(Nil, 0, 0, 0, Nil)

\* The child pointer of parent that holds node is pointed at by; nothing
\* when parent is nil.
replaceChild(m, parent, node, by) ==
    IF parent = Nil THEN m
    ELSE IF m.nodes[parent].left = node
    THEN [m EXCEPT !.nodes[parent].left = by]
    ELSE [m EXCEPT !.nodes[parent].right = by]

cloneTreapNodeBad(m, node) == [m |-> m, id |-> node]

\* cloneTreapNode: a copy with the same key, value and priority, the
\* generation one above the original's, and the original's children.
cloneTreapNode(m, node) ==
    Let(getTreapNode(m, m.nodes[node].key, m.nodes[node].value,
                     m.nodes[node].priority, m.nodes[node].generation + 1),
        LAMBDA a : [m |-> [a.m EXCEPT !.nodes[a.id].left = a.m.nodes[node].left,
                                      !.nodes[a.id].right = a.m.nodes[node].right],
                    id |-> a.id])

\* Immutable.get: the node holding key, or nil.  A walk longer than the heap
\* has entered a cycle; fuel stops it.
RECURSIVE getFrom(_, _, _, _)
getFrom(ns, node, key, fuel) ==
    IF node = Nil \/ fuel = 0 THEN Nil
    ELSE LET c == Compare(key, ns[node].key)
         IN IF c < 0 THEN getFrom(ns, ns[node].left, key, fuel - 1)
            ELSE IF c > 0 THEN getFrom(ns, ns[node].right, key, fuel - 1)
            ELSE node

get(ns, t, key) == getFrom(ns, t.root, key, Len(ns) + 1)

Has(ns, t, key) == get(ns, t, key) # Nil

GetEmptyAsNil(ns, t, key) ==
    LET node == get(ns, t, key)
    IN IF node # Nil /\ len(ns[node].value) > 0 THEN ns[node].value ELSE NilBytes

GetBad(ns, t, key) ==
    LET node == get(ns, t, key)
    IN IF node # Nil THEN ns[node].value ELSE emptySlice

Get(ns, t, key) ==
    LET node == get(ns, t, key)
    IN IF node # Nil THEN ns[node].value ELSE NilBytes

----------------------------------------------------------------------------
(* Immutable.put *)

putRotatesBad(nodePriority, parentPriority) == nodePriority <= parentPriority

\* The heap fix-up test of put: the new node is rotated above its parent
\* while its priority is strictly less than the parent's.
putRotates(nodePriority, parentPriority) == ~(nodePriority >= parentPriority)

\* The size put gives the container when it overwrites a value.
putReplaceSizeBad(totalSize, oldLen, newLen) == totalSize + newLen
putReplaceSize(totalSize, oldLen, newLen) == totalSize - oldLen + newLen

\* The size put gives the container when it adds a node.
putInsertSize(totalSize, size) == totalSize + size

\* The side put links the new node on: left when the last comparison was
\* below zero, right otherwise.
putLinksLeftBad(compareResult) == compareResult > 0
putLinksLeft(compareResult) == compareResult < 0

\* The descent of put: every visited node is pushed on oldParents and cloned,
\* the clone is linked under the clone of its parent and pushed on parents.
\* hit is the clone of the node holding key, or nil when a nil child was
\* reached; cmp is the last comparison.
RECURSIVE putWalk(_, _, _, _, _, _)
putWalk(m, node, parents, oldParents, key, fuel) ==
    IF node = Nil \/ fuel = 0
    THEN [m |-> m, parents |-> parents, oldParents |-> oldParents,
          hit |-> Nil, orig |-> Nil, cmp |-> 0, hung |-> node # Nil]
    ELSE Let(cloneTreapNode(m, node), LAMBDA c :
         Let(replaceChild(c.m, At(parents, 0), node, c.id), LAMBDA m1 :
         Let(Compare(key, m1.nodes[node].key), LAMBDA compareResult :
             IF compareResult = 0
             THEN [m |-> m1, parents |-> Push(parents, c.id),
                   oldParents |-> Push(oldParents, node),
                   hit |-> c.id, orig |-> node, cmp |-> 0, hung |-> FALSE]
             ELSE Let(IF compareResult < 0 THEN m1.nodes[node].left
                      ELSE m1.nodes[node].right, LAMBDA nxt :
                  Let(putWalk(m1, nxt, Push(parents, c.id),
                              Push(oldParents, node), key, fuel - 1), LAMBDA r :
                      IF nxt = Nil THEN [r EXCEPT !.cmp = compareResult] ELSE r)))))

\* One rotation of put: node takes the place of parent, which becomes its
\* child on the other side.
putRotate(m, node, parent) ==
    IF m.nodes[parent].left = node
    THEN [m EXCEPT !.nodes[node].right = parent,
                   !.nodes[parent].left = m.nodes[node].right]
    ELSE [m EXCEPT !.nodes[node].left = parent,
                   !.nodes[parent].right = m.nodes[node].left]

\* The rotations of put: node rises above its parents while putRotates.
RECURSIVE putFix(_, _, _, _)
putFix(m, node, parents, newRoot) ==
    IF Len(parents) = 0 THEN [m |-> m, newRoot |-> newRoot]
    ELSE IF ~putRotates(m.nodes[node].priority, m.nodes[At(parents, 0)].priority)
    THEN [m |-> m, newRoot |-> newRoot]
    ELSE Let(putRotate(m, node, At(parents, 0)), LAMBDA m1 :
             IF At(parents, 1) = Nil
             THEN putFix(m1, node, PopRest(parents), node)
             ELSE putFix(replaceChild(m1, At(parents, 1), At(parents, 0), node),
                         node, PopRest(parents), newRoot))

\* put on an empty container: the new node is the root.
putEmpty(m, t, key, value, priority, bumpGen) ==
    Let(getTreapNode(m, key, value, priority, t.generation + bumpGen), LAMBDA a :
        [m |-> a.m,
         tp |-> newImmutable(a.id, 1, nodeSize(a.m.nodes[a.id]),
                             t.generation + bumpGen, t.snap),
         old |-> <<>>, isNew |-> TRUE, hung |-> FALSE])

\* put of a key the container holds: the clone of its node gets the value.
putReplace(w, t, value, bumpGen) ==
    [m |-> [w.m EXCEPT !.nodes[w.hit].value = value],
     tp |-> newImmutable(At(w.parents, Len(w.parents) - 1), t.count,
                         putReplaceSize(t.totalSize, len(w.m.nodes[w.orig].value),
                                        len(value)),
                         t.generation + bumpGen, t.snap),
     old |-> w.oldParents, isNew |-> TRUE, hung |-> FALSE]

\* put of a new key: the new node is linked under the last clone and rises.
putInsert(w, t, key, value, priority, bumpGen) ==
    Let(getTreapNode(w.m, key, value, priority, t.generation + bumpGen), LAMBDA a :
    Let(IF putLinksLeft(w.cmp)
        THEN [a.m EXCEPT !.nodes[At(w.parents, 0)].left = a.id]
        ELSE [a.m EXCEPT !.nodes[At(w.parents, 0)].right = a.id], LAMBDA m1 :
    Let(putFix(m1, a.id, w.parents, At(w.parents, Len(w.parents) - 1)), LAMBDA f :
        [m |-> f.m,
         tp |-> newImmutable(f.newRoot, t.count + 1,
                             putInsertSize(t.totalSize, nodeSize(f.m.nodes[a.id])),
                             t.generation + bumpGen, t.snap),
         old |-> w.oldParents, isNew |-> TRUE, hung |-> FALSE])))

\* Immutable.put: the new container tp, the stack old of replaced nodes, and
\* the memory after the call.  hung: the descent never reaches a nil child.
put(m, t, key, value0, priority, bumpGen) ==
    Let(IF value0.nil THEN emptySlice ELSE value0, LAMBDA value :
        IF t.root = Nil
        THEN putEmpty(m, t, key, value, priority, bumpGen)
        ELSE Let(putWalk(m, t.root, <<>>, <<>>, key, Len(m.nodes) + 1), LAMBDA w :
                 IF w.hung
                 THEN [m |-> w.m, tp |-> t, old |-> <<>>, isNew |-> FALSE,
                       hung |-> TRUE]
                 ELSE IF w.hit # Nil
                 THEN putReplace(w, t, value, bumpGen)
                 ELSE putInsert(w, t, key, value, priority, bumpGen)))

----------------------------------------------------------------------------
(* Immutable.del *)

RECURSIVE delWalkBad(_, _, _, _, _)
delWalkBad(ns, node, oldParents, key, fuel) ==
    IF node = Nil \/ fuel = 0
    THEN [oldParents |-> oldParents, found |-> oldParents # <<>>, hung |-> node # Nil]
    ELSE LET ops == Push(oldParents, node)
             compareResult == Compare(key, ns[node].key)
         IN IF compareResult < 0 THEN delWalkBad(ns, ns[node].left, ops, key, fuel - 1)
            ELSE IF compareResult > 0 THEN delWalkBad(ns, ns[node].right, ops, key, fuel - 1)
            ELSE [oldParents |-> ops, found |-> TRUE, hung |-> FALSE]

\* The descent of del: the visited nodes, the node holding key last; found
\* tells whether the key exists.
RECURSIVE delWalk(_, _, _, _, _)
delWalk(ns, node, oldParents, key, fuel) ==
    IF node = Nil \/ fuel = 0
    THEN [oldParents |-> oldParents, found |-> FALSE, hung |-> node # Nil]
    ELSE LET ops == Push(oldParents, node)
             compareResult == Compare(key, ns[node].key)
         IN IF compareResult < 0 THEN delWalk(ns, ns[node].left, ops, key, fuel - 1)
            ELSE IF compareResult > 0 THEN delWalk(ns, ns[node].right, ops, key, fuel - 1)
            ELSE [oldParents |-> ops, found |-> TRUE, hung |-> FALSE]

\* The clones of the path of del, root first: each linked under the clone
\* before it.
RECURSIVE delClone(_, _, _, _)
delClone(m, oldParents, i, newParents) ==
    IF i <= 0 THEN [m |-> m, newParents |-> newParents]
    ELSE Let(cloneTreapNode(m, At(oldParents, i - 1)), LAMBDA c :
             delClone(replaceChild(c.m, At(newParents, 0), At(oldParents, i - 1), c.id),
                      oldParents, i - 1, Push(newParents, c.id)))

delPicksLeftBad(leftPriority, rightPriority) == leftPriority > rightPriority

\* The choice of del between two children: the left one is promoted when
\* its priority is greater than or equal to the right one's.
delPicksLeft(leftPriority, rightPriority) == leftPriority >= rightPriority

\* The size del gives the container.
delSize(totalSize, size) == totalSize - size

\* Whether del promotes the left child of delNode: the only child, or the
\* one delPicksLeft chooses.
delIsLeft(m, delNode) ==
    IF m.nodes[delNode].left = Nil THEN FALSE
    ELSE IF m.nodes[delNode].right = Nil THEN TRUE
    ELSE delPicksLeft(m.nodes[m.nodes[delNode].left].priority,
                      m.nodes[m.nodes[delNode].right].priority)

\* One rotation of del: child, a clone, takes the place of delNode, which
\* becomes its child on the other side.
delRotate(m, delNode, child, isLeft) ==
    IF isLeft
    THEN [m EXCEPT !.nodes[child].right = delNode,
                   !.nodes[delNode].left = m.nodes[child].right]
    ELSE [m EXCEPT !.nodes[child].left = delNode,
                   !.nodes[delNode].right = m.nodes[child].left]

\* The rotations of del: delNode sinks until it has no child; each promoted
\* child is cloned first.
RECURSIVE delSink(_, _, _, _, _)
delSink(m, delNode, parent, newRoot, fuel) ==
    IF (m.nodes[delNode].left = Nil /\ m.nodes[delNode].right = Nil) \/ fuel = 0
    THEN [m |-> m, parent |-> parent, newRoot |-> newRoot,
          hung |-> ~(m.nodes[delNode].left = Nil /\ m.nodes[delNode].right = Nil)]
    ELSE Let(delIsLeft(m, delNode), LAMBDA isLeft :
         Let(cloneTreapNode(m, IF isLeft THEN m.nodes[delNode].left
                               ELSE m.nodes[delNode].right), LAMBDA c :
             delSink(replaceChild(delRotate(c.m, delNode, c.id, isLeft),
                                  parent, delNode, c.id),
                     delNode, c.id, IF parent = Nil THEN c.id ELSE newRoot,
                     fuel - 1)))

delLastBad(m, t, w, bumpGen) ==
    [m |-> m,
     tp |-> newImmutable(Nil, t.count, 0, t.generation + bumpGen, t.snap),
     old |-> w.oldParents, isNew |-> TRUE, hung |-> FALSE]

\* del of the only node of the container: the empty container.
delLast(m, t, w, bumpGen) ==
    [m |-> m,
     tp |-> newImmutable(Nil, 0, 0, t.generation + bumpGen, t.snap),
     old |-> w.oldParents, isNew |-> TRUE, hung |-> FALSE]

\* The end of del: the sunk delNode is detached from its parent.
delDetach(s, delNode) ==
    IF s.hung THEN s.m
    ELSE IF s.m.nodes[s.parent].right = delNode
    THEN [s.m EXCEPT !.nodes[s.parent].right = Nil]
    ELSE [s.m EXCEPT !.nodes[s.parent].left = Nil]

\* del of a key the container holds with other nodes: the path is cloned,
\* the clone of the node sinks and is detached.
delRemove(m, t, w, bumpGen) ==
    Let(delClone(m, w.oldParents, Len(w.oldParents), <<>>), LAMBDA c :
    Let(At(c.newParents, 0), LAMBDA delNode :
    Let(PopRest(c.newParents), LAMBDA newParents :
    Let(delSink(c.m, delNode, At(newParents, 0),
                At(newParents, Len(newParents) - 1), Len(c.m.nodes) + 1), LAMBDA s :
    Let(delDetach(s, delNode), LAMBDA m1 :
        [m |-> m1,
         tp |-> newImmutable(s.newRoot, t.count - 1,
                             delSize(t.totalSize, nodeSize(m1.nodes[delNode])),
                             t.generation + bumpGen, t.snap),
         old |-> w.oldParents, isNew |-> TRUE, hung |-> s.hung])))))

\* Immutable.del: the new container tp (t itself, isNew = FALSE, when the
\* key does not exist), the stack old of replaced nodes, the memory after.
del(m, t, key, bumpGen) ==
    Let(delWalk(m.nodes, t.root, <<>>, key, Len(m.nodes) + 1), LAMBDA w :
        IF w.hung
        THEN [m |-> m, tp |-> t, old |-> <<>>, isNew |-> FALSE, hung |-> TRUE]
        ELSE IF ~w.found
        THEN [m |-> m, tp |-> t, old |-> <<>>, isNew |-> FALSE, hung |-> FALSE]
        ELSE IF At(w.oldParents, 1) = Nil
                /\ m.nodes[At(w.oldParents, 0)].left = Nil
                /\ m.nodes[At(w.oldParents, 0)].right = Nil
        THEN delLast(m, t, w, bumpGen)
        ELSE delRemove(m, t, w, bumpGen))

----------------------------------------------------------------------------
(* Immutable.ForEach *)

\* The nodes from node down its left spine are pushed on the stack.
RECURSIVE pushLeftSpine(_, _, _, _)
pushLeftSpine(ns, node, parents, fuel) ==
    IF node = Nil \/ fuel = 0 THEN parents
    ELSE pushLeftSpine(ns, ns[node].left, Push(parents, node), fuel - 1)

\* What ForEach does with the visitor's result: it goes on when fn returned
\* true and returns when it returned false.
forEachGoesOnBad(fnResult) == TRUE
forEachGoesOn(fnResult) == fnResult

\* The loop of ForEach.  The visitor fn is given by the number stopAt of the
\* call at which it returns false (it returns true at every other call); the
\* result is the sequence of calls made.
RECURSIVE forEachLoop(_, _, _, _, _)
forEachLoop(ns, parents, calls, stopAt, fuel) ==
    IF Len(parents) = 0 \/ fuel = 0 THEN calls
    ELSE LET node == At(parents, 0)
             calls1 == Append(calls, [k |-> ns[node].key, v |-> ns[node].value])
         IN IF ~forEachGoesOn(Len(calls1) # stopAt) THEN calls1
            ELSE forEachLoop(ns,
                     pushLeftSpine(ns, ns[node].right, PopRest(parents), fuel),
                     calls1, stopAt, fuel - 1)

ForEach(ns, t, stopAt) ==
    forEachLoop(ns, pushLeftSpine(ns, t.root, <<>>, Len(ns) + 1), <<>>, stopAt,
                Len(ns) + 1)

----------------------------------------------------------------------------
(* SnapRecord of database/internal/treap/immutable.go: prev and next only. *)
(* released, handle, heap and dgen are ghosts: whether Release was called, *)
(* the container Snapshot was called on, the node heap at that moment, and *)
(* the nodes deferred to the record, each with the generation it carried   *)
(* when it was abandoned.                                                  *)

NewRecBad(generation, rp, prev, next, handle) ==
    [generation |-> generation, rp |-> rp, prev |-> next, next |-> prev,
     recycle |-> Nil, released |-> FALSE, handle |-> handle, dgen |-> <<>>,
     heap |-> <<>>]

NewRec(generation, rp, prev, next, handle) ==
    [generation |-> generation, rp |-> rp, prev |-> prev, next |-> next,
     recycle |-> Nil, released |-> FALSE, handle |-> handle, dgen |-> <<>>,
     heap |-> <<>>]

\* Immutable.snapCount: the records reached from t.snap along prev, then
\* those reached from t.snap.next along next, the excluded one left out.
RECURSIVE countPrev(_, _, _, _)
countPrev(rs, h, exclude, fuel) ==
    IF h = Nil \/ fuel = 0 THEN 0
    ELSE (IF h # exclude THEN 1 ELSE 0) + countPrev(rs, rs[h].prev, exclude, fuel - 1)

RECURSIVE countNext(_, _, _, _)
countNext(rs, h, exclude, fuel) ==
    IF h = Nil \/ fuel = 0 THEN 0
    ELSE (IF h # exclude THEN 1 ELSE 0) + countNext(rs, rs[h].next, exclude, fuel - 1)

snapCount(rs, t, exclude) ==
    IF t.snap = Nil THEN 0
    ELSE countPrev(rs, t.snap, exclude, Len(rs) + 1)
         + countNext(rs, rs[t.snap].next, exclude, Len(rs) + 1)

\* The test PutM, DeleteM and Recycle make before putTreapNode.
recyclesNow(nodeGeneration, generation, count) ==
    nodeGeneration = generation /\ count = 0

\* The loop of PutM and DeleteM over the popped old nodes, newest first.
RECURSIVE recycleOld(_, _, _, _)
recycleOld(m, old, generation, count) ==
    IF Len(old) = 0 THEN m
    ELSE LET node == At(old, 0)
         IN recycleOld(IF recyclesNow(m.nodes[node].generation, generation, count)
                       THEN putTreapNode(m, node) ELSE m,
                       PopRest(old), generation, count)

\* The loop of Recycle over the nodes of the tree in ascending order.
RECURSIVE recycleLoop(_, _, _, _, _)
recycleLoop(m, parents, generation, count, fuel) ==
    IF Len(parents) = 0 \/ fuel = 0 THEN m
    ELSE LET node == At(parents, 0)
             ps == pushLeftSpine(m.nodes, m.nodes[node].right, PopRest(parents), fuel)
         IN recycleLoop(IF recyclesNow(m.nodes[node].generation, generation, count)
                        THEN putTreapNode(m, node) ELSE m,
                        ps, generation, count, fuel - 1)

----------------------------------------------------------------------------
(* The state and the calls of database/internal/treap/immutable.go. *)

\* Put and Delete: put and del with the generation bumped by one.
PutBad(m, t, key, value, priority) == put(m, t, key, value, priority, 0)
Put(m, t, key, value, priority) == put(m, t, key, value, priority, 1)

DeleteBad(m, t, key) == del(m, t, key, 0)
Delete(m, t, key) == del(m, t, key, 1)

\* PutM and DeleteM: put and del with the generation as it was, then the
\* loop over the replaced nodes; the result is that of put and del, with the
\* memory after the loop.
PutMBad(m, rs, t, key, value, priority, excluded) ==
    Let(put(m, t, key, value, priority, 1), LAMBDA w :
        [w EXCEPT !.m = recycleOld(w.m, w.old, w.tp.generation,
                                   snapCount(rs, t, excluded))])

PutM(m, rs, t, key, value, priority, excluded) ==
    Let(put(m, t, key, value, priority, 0), LAMBDA w :
        [w EXCEPT !.m = recycleOld(w.m, w.old, w.tp.generation,
                                   snapCount(rs, t, excluded))])

DeleteMBad(m, rs, t, key, excluded) ==
    Let(del(m, t, key, 0), LAMBDA w :
        [w EXCEPT !.m = recycleOld(w.m, w.old, w.tp.generation,
                                   snapCount(rs, t, excluded)),
                  !.tp = t])

DeleteM(m, rs, t, key, excluded) ==
    Let(del(m, t, key, 0), LAMBDA w :
        [w EXCEPT !.m = recycleOld(w.m, w.old, w.tp.generation,
                                   snapCount(rs, t, excluded))])

ImmLen(t) == t.count
Size(t) == t.totalSize

NoCall == [op |-> "none", src |-> Nil, res |-> Nil, key |-> <<>>,
           was |-> NilBytes, old |-> <<>>, put |-> <<>>, calls |-> <<>>,
           stopAt |-> 0,
           rec |-> Nil, excluded |-> Nil,
           copy |-> "", value |-> NilBytes,
           before |-> [op |-> "none", key |-> <<>>, value |-> NilBytes, src |-> Nil]]

\* What a write remembers of the call made before it.
Prior == [op |-> last.op, key |-> last.key, value |-> last.value, src |-> last.src]

\* What a caller's value is stored as, and what Get gives for a missing key.
Stored(value) == IF value.nil THEN Bytes(<<>>) ELSE value
Absent == NilBytes

\* The threads that call the library: the owner of the container, which
\* writes, and a reader, which takes and releases snapshots.
Owner == 1
Reader == 2
Threads == {Owner, Reader}

NoJob == [op |-> "none", h |-> Nil, rec |-> Nil, tp |-> Nil, old |-> <<>>,
          key |-> <<>>, value |-> NilBytes, excluded |-> Nil, snapGen |-> 0]

\* What a step of a call did: the thread, the call, the kinds of work (a
\* tree walk, a read of the snapshot list, a generation comparison, a pool
\* return) and whether the thread held the mutex.
NoStep == [th |-> 0, op |-> "none", what |-> {}, held |-> FALSE]

\* The mutex is free and every thread is between two calls.
MuIdle == [holder |-> 0,
           pc |-> [th \in Threads |-> "idle"],
           job |-> [th \in Threads |-> NoJob],
           did |-> NoStep]

\* The bridge of a process that runs none.
NoBridge == [pc |-> "off"]

InitWith(n) ==
    /\ mu = MuIdle
    /\ bridge = NoBridge
    /\ nodes = <<>>
    /\ pool = <<>>
    /\ ncalls = 0
    /\ limit = n
    /\ imms = <<EmptyImmutable>>
    /\ cur = 1
    /\ recs = <<>>
    /\ slots = <<>>
    /\ amap = [k \in Keys |-> Absent]
    /\ last = NoCall

Init == InitWith(MaxCalls)

InitDeep == InitWith(MaxCallsDeep)

LiveRecs == {r \in 1..Len(recs) : ~recs[r].released}

\* The containers a caller holds: the one it writes through and those it
\* took a snapshot of and has not released.
Handles == (IF cur = Nil THEN {} ELSE {cur}) \cup {recs[r].handle : r \in LiveRecs}

\* One more call is made, within the bound.
Called ==
    /\ ncalls < limit
    /\ ncalls' = ncalls + 1
    /\ UNCHANGED <<limit, mu, bridge>>

\* A write returned container w.tp: it is a new object unless del returned
\* its receiver.  A write that never returns has no next state.
Written(w) ==
    /\ ~w.hung
    /\ nodes' = w.m.nodes
    /\ pool' = w.m.pool
    /\ imms' = IF w.isNew THEN Append(imms, w.tp) ELSE imms
    /\ cur' = IF w.isNew THEN Len(imms) + 1 ELSE cur

\* t.Put(key, value), the caller going on with the result.
PutCall(key, value, priority) ==
    /\ cur # Nil
    /\ Called
    /\ LET w == Put(Mem(nodes, pool), imms[cur], key, value, priority)
       IN /\ Written(w)
          /\ last' = [NoCall EXCEPT !.copy = last.copy, !.op = "Put", !.src = cur, !.res = cur',
                            !.key = key, !.was = amap[key], !.old = w.old,
                            !.value = value, !.before = Prior]
    /\ amap' = [amap EXCEPT ![key] = Stored(value)]
    /\ UNCHANGED <<recs, slots>>

\* t.Delete(key), the caller going on with the result.
DeleteCall(key) ==
    /\ cur # Nil
    /\ Called
    /\ LET w == Delete(Mem(nodes, pool), imms[cur], key)
       IN /\ Written(w)
          /\ last' = [NoCall EXCEPT !.copy = last.copy, !.op = "Delete", !.src = cur, !.res = cur',
                            !.key = key, !.was = amap[key], !.old = w.old,
                            !.before = Prior]
    /\ amap' = [amap EXCEPT ![key] = Absent]
    /\ UNCHANGED <<recs, slots>>

\* PutM(&t, key, value, excluded).
PutMCall(key, value, priority, excluded) ==
    /\ cur # Nil
    /\ Called
    /\ LET w == PutM(Mem(nodes, pool), recs, imms[cur], key, value, priority, excluded)
       IN /\ Written(w)
          /\ last' = [NoCall EXCEPT !.copy = "treap", !.value = value,
                            !.before = Prior,
                            !.op = "PutM", !.src = cur, !.res = cur',
                            !.key = key, !.was = amap[key], !.old = w.old,
                            !.put = w.m.put, !.excluded = excluded]
    /\ amap' = [amap EXCEPT ![key] = Stored(value)]
    /\ UNCHANGED <<recs, slots>>

\* DeleteM(&t, key, excluded).
DeleteMCall(key, excluded) ==
    /\ cur # Nil
    /\ Called
    /\ LET w == DeleteM(Mem(nodes, pool), recs, imms[cur], key, excluded)
       IN /\ Written(w)
          /\ last' = [NoCall EXCEPT !.copy = "treap", !.before = Prior,
                            !.op = "DeleteM", !.src = cur, !.res = cur',
                            !.key = key, !.was = amap[key], !.old = w.old,
                            !.put = w.m.put, !.excluded = excluded]
    /\ amap' = [amap EXCEPT ![key] = Absent]
    /\ UNCHANGED <<recs, slots>>

\* t.ForEach(fn), fn returning false at its stopAt-th call.
ForEachCall(stopAt) ==
    /\ cur # Nil
    /\ Called
    /\ last' = [NoCall EXCEPT !.copy = last.copy, !.op = "ForEach", !.src = cur, !.res = cur,
                      !.stopAt = stopAt,
                      !.calls = ForEach(nodes, imms[cur], stopAt)]
    /\ UNCHANGED <<nodes, pool, imms, cur, recs, slots, amap>>

\* h.Snapshot(): the new record follows the one h.snap points to.
SnapshotCall(h) ==
    /\ Len(recs) < MaxSnaps
    /\ Called
    /\ LET prev == imms[h].snap
           next == IF prev # Nil THEN recs[prev].next ELSE Nil
           r == Len(recs) + 1
           rs == Append(recs, [NewRec(0, Nil, prev, next, h) EXCEPT !.heap = nodes])
       IN /\ recs' = IF prev # Nil THEN [rs EXCEPT ![prev].next = r] ELSE rs
          /\ imms' = [imms EXCEPT ![h].snap = r]
          /\ last' = [NoCall EXCEPT !.copy = "treap", !.op = "Snapshot", !.src = h, !.res = h, !.rec = r]
    /\ UNCHANGED <<nodes, pool, cur, slots, amap>>

\* r.Release(): the record is unlinked from its neighbours.
ReleaseCall(r) ==
    /\ Called
    /\ LET p == recs[r].prev
           n == recs[r].next
           rs1 == IF p # Nil THEN [recs EXCEPT ![p].next = n] ELSE recs
           rs2 == IF n # Nil THEN [rs1 EXCEPT ![n].prev = p] ELSE rs1
       IN recs' = [rs2 EXCEPT ![r].released = TRUE]
    /\ last' = [NoCall EXCEPT !.copy = "treap", !.op = "Release", !.rec = r]
    /\ UNCHANGED <<nodes, pool, imms, cur, slots, amap>>

\* t.Recycle() on the container the caller is about to drop.
RecycleCall ==
    /\ cur # Nil
    /\ Called
    /\ LET t == imms[cur]
           m == recycleLoop(Mem(nodes, pool),
                            pushLeftSpine(nodes, t.root, <<>>, Len(nodes) + 1),
                            t.generation, snapCount(recs, t, Nil) - 1,
                            Len(nodes) + 1)
       IN /\ nodes' = m.nodes
          /\ pool' = m.pool
          /\ last' = [NoCall EXCEPT !.copy = "treap", !.op = "Recycle", !.src = cur, !.put = m.put]
    /\ cur' = Nil
    /\ UNCHANGED <<imms, recs, slots, amap>>

\* NewImmutable(), after the caller dropped its container.
NewImmutableCall ==
    /\ cur = Nil
    /\ Called
    /\ imms' = Append(imms, EmptyImmutable)
    /\ cur' = Len(imms) + 1
    /\ amap' = [k \in Keys |-> Absent]
    /\ last' = [NoCall EXCEPT !.copy = last.copy, !.op = "NewImmutable", !.res = cur']
    /\ UNCHANGED <<nodes, pool, recs, slots>>

\* A garbage collection empties the node pool.
PoolGC ==
    /\ pool # <<>>
    /\ pool' = <<>>
    /\ UNCHANGED <<nodes, ncalls, limit, imms, cur, recs, slots, amap, last, mu, bridge>>

Excludable == {Nil} \cup LiveRecs

\* A key set of two keys of different lengths, and a single value.
Keys2 == {<<1>>, <<1, 2>>}
Values1 == {Bytes(<<7>>)}

\* The four writes on three keys, one value, with no snapshot taken and the
\* pool never emptied, in behaviours of MaxCallsDeep calls.
TreeNext ==
    \/ \E k \in Keys, v \in Values1, p \in Priorities : PutCall(k, v, p)
    \/ \E k \in Keys : DeleteCall(k)
    \/ \E k \in Keys, v \in Values1, p \in Priorities : PutMCall(k, v, p, Nil)
    \/ \E k \in Keys : DeleteMCall(k, Nil)

SpecTree == InitDeep /\ [][TreeNext]_vars

\* The four writes on two keys, nil and non-nil values, no snapshot taken.
SizeNext ==
    \/ \E k \in Keys2, v \in Values, p \in Priorities : PutCall(k, v, p)
    \/ \E k \in Keys2 : DeleteCall(k)
    \/ \E k \in Keys2, v \in Values, p \in Priorities : PutMCall(k, v, p, Nil)
    \/ \E k \in Keys2 : DeleteMCall(k, Nil)
    \/ PoolGC

SpecSize == Init /\ [][SizeNext]_vars

\* The immutable writes.
ImmNext ==
    \/ \E k \in Keys, v \in Values, p \in Priorities : PutCall(k, v, p)
    \/ \E k \in Keys : DeleteCall(k)

SpecImm == Init /\ [][ImmNext]_vars

\* The immutable writes of one value, in behaviours of MaxCallsDeep calls.
HeapNext ==
    \/ \E k \in Keys, v \in Values1, p \in Priorities : PutCall(k, v, p)
    \/ \E k \in Keys : DeleteCall(k)

SpecHeap == InitDeep /\ [][HeapNext]_vars

\* Put of one value and the traversal, in behaviours of MaxCallsDeep calls.
EachNext ==
    \/ \E k \in Keys, v \in Values1, p \in Priorities : PutCall(k, v, p)
    \/ \E n \in 0..Cardinality(Keys) : ForEachCall(n)

SpecEach == InitDeep /\ [][EachNext]_vars

\* Every call of database/internal/treap/immutable.go, on two keys.
Next ==
    \/ \E k \in Keys2, v \in Values1, p \in Priorities : PutCall(k, v, p)
    \/ \E k \in Keys2 : DeleteCall(k)
    \/ \E k \in Keys2, v \in Values1, p \in Priorities, x \in Excludable :
           PutMCall(k, v, p, x)
    \/ \E k \in Keys2, x \in Excludable : DeleteMCall(k, x)
    \/ \E h \in Handles : SnapshotCall(h)
    \/ \E r \in LiveRecs : ReleaseCall(r)
    \/ RecycleCall
    \/ NewImmutableCall
    \/ PoolGC

Spec == Init /\ [][Next]_vars


----------------------------------------------------------------------------
(* The snapshot registry of the copy in rpcclient/examples/lbcdblocknotify/ *)
(* adapter.go: Immutable.snap and SnapRecord.rp point to a slot that holds *)
(* a record pointer; a record carries a generation and a recycle chain.    *)

\* The records snapCount visits: from the slot's record along prev, then
\* from that record's next along next.  hung: a walk that never ends.
RECURSIVE walkPrev(_, _, _)
walkPrev(rs, h, fuel) ==
    IF h = Nil THEN [seq |-> <<>>, hung |-> FALSE]
    ELSE IF fuel = 0 THEN [seq |-> <<>>, hung |-> TRUE]
    ELSE LET w == walkPrev(rs, rs[h].prev, fuel - 1)
         IN [seq |-> <<h>> \o w.seq, hung |-> w.hung]

RECURSIVE walkNext(_, _, _)
walkNext(rs, h, fuel) ==
    IF h = Nil THEN [seq |-> <<>>, hung |-> FALSE]
    ELSE IF fuel = 0 THEN [seq |-> <<>>, hung |-> TRUE]
    ELSE LET w == walkNext(rs, rs[h].next, fuel - 1)
         IN [seq |-> <<h>> \o w.seq, hung |-> w.hung]

\* The running count, maxSnap and minSnap of snapCount over the visited
\* records; the excluded record is skipped.
RECURSIVE countSnaps(_, _, _, _)
countSnaps(rs, visited, excluded, acc) ==
    IF visited = <<>> THEN acc
    ELSE LET h == Head(visited)
             a == IF h = excluded THEN acc
                  ELSE [hung |-> FALSE,
                        count |-> acc.count + 1,
                        maxSnap |-> IF acc.maxSnap = Nil
                                       \/ rs[acc.maxSnap].generation < rs[h].generation
                                    THEN h ELSE acc.maxSnap,
                        minSnap |-> IF acc.minSnap = Nil
                                       \/ rs[acc.minSnap].generation > rs[h].generation
                                    THEN h ELSE acc.minSnap]
         IN countSnaps(rs, Tail(visited), excluded, a)

\* Immutable.snapCount of adapter.go: count, maxSnap and minSnap.
snapCountGen(rs, sl, t, excluded) ==
    LET none == [count |-> 0, maxSnap |-> Nil, minSnap |-> Nil, hung |-> FALSE]
    IN IF t.snap = Nil THEN none
       ELSE IF sl[t.snap] = Nil THEN none
       ELSE LET before == walkPrev(rs, sl[t.snap], Len(rs) + 1)
                after == walkNext(rs, rs[sl[t.snap]].next, Len(rs) + 1)
                c == countSnaps(rs, before.seq \o after.seq, excluded, none)
            IN [c EXCEPT !.hung = before.hung \/ after.hung]

\* The test PutM and DeleteM of adapter.go make before putTreapNode.
recyclesNowGen(count, nodeGeneration, maxSnapGeneration) ==
    count = 0 \/ nodeGeneration > maxSnapGeneration

\* The loop of PutM and DeleteM of adapter.go over the popped old nodes,
\* newest first: a node goes to the pool, or is stamped recycleGeneration
\* and prepended to the recycle chain of minSnap.  st holds the memory m and
\* the records rs.
RECURSIVE deferOld(_, _, _)
deferOld(st, old, sc) ==
    IF Len(old) = 0 THEN st
    ELSE LET node == At(old, 0)
             g == st.m.nodes[node].generation
             now == recyclesNowGen(sc.count, g,
                        IF sc.maxSnap = Nil THEN 0 ELSE st.rs[sc.maxSnap].generation)
             st1 == IF now
                    THEN [st EXCEPT !.m = putTreapNode(st.m, node)]
                    ELSE [m |-> [st.m EXCEPT
                                   !.nodes[node].generation = recycleGeneration,
                                   !.nodes[node].next = st.rs[sc.minSnap].recycle],
                          rs |-> [st.rs EXCEPT
                                   ![sc.minSnap].recycle = node,
                                   ![sc.minSnap].dgen =
                                       Append(@, [node |-> node, generation |-> g])]]
         IN deferOld(st1, PopRest(old), sc)

\* The loop of Release over the recycle chain.
RECURSIVE flushChain(_, _, _)
flushChain(m, node, fuel) ==
    IF node = Nil THEN [m |-> m, hung |-> FALSE]
    ELSE IF fuel = 0 THEN [m |-> m, hung |-> TRUE]
    ELSE LET next == m.nodes[node].next
         IN flushChain(putTreapNode(m, node), next, fuel - 1)

\* The test Recycle of adapter.go makes before putTreapNode.
recyclesAbove(nodeGeneration, snapGen) == nodeGeneration > snapGen

\* The loop of Recycle of adapter.go over the nodes in ascending order.
RECURSIVE recycleLoopGen(_, _, _, _)
recycleLoopGen(m, parents, snapGen, fuel) ==
    IF Len(parents) = 0 \/ fuel = 0 THEN m
    ELSE LET node == At(parents, 0)
             ps == pushLeftSpine(m.nodes, m.nodes[node].right, PopRest(parents), fuel)
         IN recycleLoopGen(IF recyclesAbove(m.nodes[node].generation, snapGen)
                           THEN putTreapNode(m, node) ELSE m,
                           ps, snapGen, fuel - 1)

----------------------------------------------------------------------------
(* The calls of the copy in adapter.go.  Put, Delete, ForEach and          *)
(* NewImmutable are those above: its put and del always bump.              *)

\* The end of PutM and DeleteM of adapter.go, after put or del gave w:
\* snapCount is called with nil, whatever excluded is, and the replaced
\* nodes are recycled or deferred.  A snapCount that never returns hangs the
\* call.
recycleOrDefer(w, rs, sl, t) ==
    Let(snapCountGen(rs, sl, t, Nil), LAMBDA sc :
        IF sc.hung THEN [m |-> w.m, rs |-> rs, tp |-> w.tp, old |-> w.old,
                         isNew |-> w.isNew, hung |-> TRUE]
        ELSE Let(deferOld([m |-> w.m, rs |-> rs], w.old, sc), LAMBDA st :
                 [m |-> st.m, rs |-> st.rs, tp |-> w.tp, old |-> w.old,
                  isNew |-> w.isNew, hung |-> w.hung]))

PutMGen(m, rs, sl, t, key, value, priority, excluded) ==
    recycleOrDefer(put(m, t, key, value, priority, 1), rs, sl, t)

DeleteMGen(m, rs, sl, t, key, excluded) ==
    recycleOrDefer(del(m, t, key, 1), rs, sl, t)

\* PutM(&t, key, value, excluded).
PutMGenCall(key, value, priority, excluded) ==
    /\ cur # Nil
    /\ Called
    /\ LET w == PutMGen(Mem(nodes, pool), recs, slots, imms[cur], key, value,
                         priority, excluded)
       IN /\ Written(w)
          /\ recs' = w.rs
          /\ last' = [NoCall EXCEPT !.copy = "adapter", !.value = value,
                            !.before = Prior,
                            !.op = "PutM", !.src = cur, !.res = cur',
                            !.key = key, !.was = amap[key], !.old = w.old,
                            !.put = w.m.put, !.excluded = excluded]
    /\ amap' = [amap EXCEPT ![key] = Stored(value)]
    /\ UNCHANGED slots

\* DeleteM(&t, key, excluded).
DeleteMGenCall(key, excluded) ==
    /\ cur # Nil
    /\ Called
    /\ LET w == DeleteMGen(Mem(nodes, pool), recs, slots, imms[cur], key, excluded)
       IN /\ Written(w)
          /\ recs' = w.rs
          /\ last' = [NoCall EXCEPT !.copy = "adapter", !.before = Prior,
                            !.op = "DeleteM", !.src = cur, !.res = cur',
                            !.key = key, !.was = amap[key], !.old = w.old,
                            !.put = w.m.put, !.excluded = excluded]
    /\ amap' = [amap EXCEPT ![key] = Absent]
    /\ UNCHANGED slots

\* h.Snapshot(): a new slot holds the new record, stamped with h's
\* generation; it follows the record of h's former slot, whose next is set;
\* the prev of the record after it is left as it was.
SnapshotGenDo(h) ==
    /\ LET rp == imms[h].snap
           prev == IF rp # Nil THEN slots[rp] ELSE Nil
           next == IF prev # Nil THEN recs[prev].next ELSE Nil
           p == Len(slots) + 1
           r == Len(recs) + 1
           rs == Append(recs, [NewRec(imms[h].generation, p, prev, next, h)
                                  EXCEPT !.heap = nodes])
       IN /\ slots' = Append(slots, r)
          /\ recs' = IF prev # Nil THEN [rs EXCEPT ![prev].next = r] ELSE rs
          /\ imms' = [imms EXCEPT ![h].snap = p]
          /\ last' = [NoCall EXCEPT !.copy = "adapter", !.op = "Snapshot", !.src = h, !.res = h, !.rec = r]
    /\ UNCHANGED <<nodes, pool, cur, amap>>

SnapshotGenCall(h) ==
    /\ Len(recs) < MaxSnaps
    /\ Called
    /\ SnapshotGenDo(h)

\* r.Release(): the slot is cleared, then pointed at next, then at prev; the
\* neighbours are linked to each other; the recycle chain goes to the pool.
\* The nodes handed over are recorded with the generation each carried when
\* it was abandoned.
ReleaseGenDo(r) ==
    /\ LET rec == recs[r]
           rs1 == IF rec.next # Nil THEN [recs EXCEPT ![rec.next].prev = rec.prev]
                  ELSE recs
           rs2 == IF rec.prev # Nil THEN [rs1 EXCEPT ![rec.prev].next = rec.next]
                  ELSE rs1
           target == IF rec.prev # Nil THEN rec.prev
                     ELSE IF rec.next # Nil THEN rec.next ELSE Nil
           f == flushChain(Mem(nodes, pool), rec.recycle, Len(nodes) + 1)
       IN /\ ~f.hung
          /\ slots' = [slots EXCEPT ![rec.rp] = target]
          /\ recs' = [rs2 EXCEPT ![r].released = TRUE]
          /\ nodes' = f.m.nodes
          /\ pool' = f.m.pool
          /\ last' = [NoCall EXCEPT !.copy = "adapter", !.op = "Release", !.rec = r,
                            !.put = [i \in 1..Len(f.m.put) |->
                                        [node |-> f.m.put[i].node,
                                         generation |->
                                            IF i <= Len(rec.dgen)
                                            THEN rec.dgen[Len(rec.dgen) + 1 - i].generation
                                            ELSE f.m.put[i].generation]]]
    /\ UNCHANGED <<imms, cur, amap>>

ReleaseGenCall(r) ==
    /\ Called
    /\ ReleaseGenDo(r)

\* t.Recycle(excluded) on the container the caller is about to drop.
RecycleGenCall(excluded) ==
    /\ cur # Nil
    /\ Called
    /\ LET t == imms[cur]
           sc == snapCountGen(recs, slots, t, excluded)
           snapGen == IF sc.maxSnap # Nil THEN recs[sc.maxSnap].generation ELSE 0
           m == recycleLoopGen(Mem(nodes, pool),
                               pushLeftSpine(nodes, t.root, <<>>, Len(nodes) + 1),
                               snapGen, Len(nodes) + 1)
       IN /\ ~sc.hung
          /\ nodes' = m.nodes
          /\ pool' = m.pool
          /\ last' = [NoCall EXCEPT !.copy = "adapter", !.op = "Recycle", !.src = cur, !.put = m.put,
                            !.excluded = excluded]
    /\ cur' = Nil
    /\ UNCHANGED <<imms, recs, slots, amap>>

\* A behaviour of the specification that looks for a scenario of snapshots
\* makes MaxCallsSnap calls.
InitSnap == InitWith(MaxCallsSnap)

\* The single priority and the single key of that specification.
Priority0 == {0}
Keys1 == {<<1>>}

\* Every call of the copy in adapter.go, on two keys, PutM and DeleteM
\* with no excluded record.
GenNext ==
    \/ \E k \in Keys2, v \in Values1, p \in Priorities : PutCall(k, v, p)
    \/ \E k \in Keys2 : DeleteCall(k)
    \/ \E k \in Keys2, v \in Values1, p \in Priorities : PutMGenCall(k, v, p, Nil)
    \/ \E k \in Keys2 : DeleteMGenCall(k, Nil)
    \/ \E h \in Handles : SnapshotGenCall(h)
    \/ \E r \in LiveRecs : ReleaseGenCall(r)
    \/ \E x \in Excludable : RecycleGenCall(x)
    \/ NewImmutableCall
    \/ PoolGC

SpecGen == Init /\ [][GenNext]_vars

\* The writes, Snapshot and Release of the copy in adapter.go, on one key,
\* in behaviours of MaxCallsSnap calls.
SnapNext ==
    \/ \E k \in Keys1, v \in Values1, p \in Priority0 : PutCall(k, v, p)
    \/ \E k \in Keys1 : DeleteCall(k)
    \/ \E k \in Keys1, v \in Values1, p \in Priority0 : PutMGenCall(k, v, p, Nil)
    \/ \E k \in Keys1 : DeleteMGenCall(k, Nil)
    \/ \E h \in Handles : SnapshotGenCall(h)
    \/ \E r \in LiveRecs : ReleaseGenCall(r)
    \/ PoolGC

SpecSnap == InitSnap /\ [][SnapNext]_vars

\* The caller uses one copy of the package: once a call of one copy was
\* made, no call of the other is.
UsesTreap == last.copy # "adapter"
UsesAdapter == last.copy # "treap"

\* The mutable writes, Snapshot and Release of either copy, on two keys,
\* every live record being passed as excluded.
MutNext ==
    \/ \E k \in Keys2, v \in Values1, p \in Priorities, x \in Excludable :
           UsesTreap /\ PutMCall(k, v, p, x)
    \/ \E k \in Keys2, x \in Excludable : UsesTreap /\ DeleteMCall(k, x)
    \/ \E h \in Handles : UsesTreap /\ SnapshotCall(h)
    \/ \E r \in LiveRecs : UsesTreap /\ ReleaseCall(r)
    \/ \E k \in Keys2, v \in Values1, p \in Priorities, x \in Excludable :
           UsesAdapter /\ PutMGenCall(k, v, p, x)
    \/ \E k \in Keys2, x \in Excludable : UsesAdapter /\ DeleteMGenCall(k, x)
    \/ \E h \in Handles : UsesAdapter /\ SnapshotGenCall(h)
    \/ \E r \in LiveRecs : UsesAdapter /\ ReleaseGenCall(r)
    \/ PoolGC

SpecMut == Init /\ [][MutNext]_vars

\* The same calls in behaviours of MaxCallsDeep calls.
SpecMutDeep == InitDeep /\ [][MutNext]_vars

----------------------------------------------------------------------------
(* What the properties speak of: the nodes and pairs of a container, read  *)
(* off the heap without the library's own walks.                           *)

\* The nodes reachable from node by child pointers.
RECURSIVE ReachFrom(_, _, _)
ReachFrom(ns, node, fuel) ==
    IF node = Nil \/ fuel = 0 THEN {}
    ELSE {node} \cup ReachFrom(ns, ns[node].left, fuel - 1)
                \cup ReachFrom(ns, ns[node].right, fuel - 1)

Reach(ns, root) == ReachFrom(ns, root, Len(ns) + 1)

\* a is before b in lexicographic byte order.
KeyLess(a, b) ==
    \/ \E i \in 1..Min2(Len(a), Len(b)) :
           /\ a[i] < b[i]
           /\ \A j \in 1..(i - 1) : a[j] = b[j]
    \/ /\ Len(a) < Len(b)
       /\ \A j \in 1..Len(a) : a[j] = b[j]

\* The tree under root is a tree: no node is reached twice.
RECURSIVE SizeFrom(_, _, _)
SizeFrom(ns, node, fuel) ==
    IF node = Nil \/ fuel = 0 THEN 0
    ELSE 1 + SizeFrom(ns, ns[node].left, fuel - 1)
           + SizeFrom(ns, ns[node].right, fuel - 1)

IsTree(ns, root) == SizeFrom(ns, root, Len(ns) + 1) = Cardinality(Reach(ns, root))

BSTOrdered(ns, root) ==
    \A n \in Reach(ns, root) :
        /\ \A x \in Reach(ns, ns[n].left) : KeyLess(ns[x].key, ns[n].key)
        /\ \A x \in Reach(ns, ns[n].right) : KeyLess(ns[n].key, ns[x].key)

MinHeap(ns, root) ==
    \A n \in Reach(ns, root) :
        \A c \in {ns[n].left, ns[n].right} \ {Nil} :
            ns[n].priority <= ns[c].priority

\* The sum of the sizes of a set of nodes.
RECURSIVE SumSize(_, _)
SumSize(ns, S) ==
    IF S = {} THEN 0
    ELSE LET n == CHOOSE x \in S : TRUE
         IN nodeFieldsSize + Len(ns[n].key) + Len(ns[n].value.b)
            + SumSize(ns, S \ {n})

\* The keys a map holds, and its pairs in ascending key order.
Present(f) == {k \in DOMAIN f : f[k] # Absent}

RECURSIVE Ascending(_, _)
Ascending(f, S) ==
    IF S = {} THEN <<>>
    ELSE LET k == CHOOSE x \in S : \A y \in S \ {x} : KeyLess(x, y)
         IN <<[k |-> k, v |-> f[k]]>> \o Ascending(f, S \ {k})

\* The pairs a container holds, as a map over Keys.
View(ns, t) ==
    [k \in Keys |->
        IF \E n \in Reach(ns, t.root) : ns[n].key = k
        THEN ns[CHOOSE n \in Reach(ns, t.root) : ns[n].key = k].value
        ELSE Absent]

Range(s) == {s[i] : i \in 1..Len(s)}

\* PutM and DeleteM of either copy, on two keys, with nil and non-nil
\* values and no snapshot taken: a caller that began with one copy goes on
\* with it.
TwiceNext ==
    \/ \E k \in Keys2, v \in Values, p \in Priorities :
           UsesTreap /\ PutMCall(k, v, p, Nil)
    \/ \E k \in Keys2 : UsesTreap /\ DeleteMCall(k, Nil)
    \/ \E k \in Keys2, v \in Values, p \in Priorities :
           UsesAdapter /\ PutMGenCall(k, v, p, Nil)
    \/ \E k \in Keys2 : UsesAdapter /\ DeleteMGenCall(k, Nil)
    \/ PoolGC

SpecTwice == Init /\ [][TwiceNext]_vars

\* d := h: the caller goes back to the container h a live snapshot record
\* was taken on, and its next writes go through d.  No call of the library
\* is made.  The map the caller expects is the one h had at the snapshot.
Resume(r) ==
    /\ recs[r].handle # cur
    /\ cur' = recs[r].handle
    /\ amap' = View(recs[r].heap, imms[recs[r].handle])
    /\ last' = [NoCall EXCEPT !.op = "Resume", !.copy = last.copy, !.rec = r,
                      !.res = recs[r].handle]
    /\ UNCHANGED <<nodes, pool, ncalls, limit, imms, recs, slots, mu, bridge>>

\* The caller may release record r: it does not release the only record of
\* a container it went back to and still holds, other containers having been
\* derived from it.
Droppable(r) ==
    \/ recs[r].handle # cur
    \/ cur = Len(imms)
    \/ \E q \in LiveRecs \ {r} : recs[q].handle = cur

InitBranch == InitWith(MaxCallsBranch)

\* The mutable writes, Snapshot and Release of the copy in adapter.go, on
\* two keys with one priority, the caller going back to containers it took
\* a snapshot of, in behaviours of MaxCallsBranch calls.
BranchNext ==
    \/ \E k \in Keys2, v \in Values1, p \in Priority0 : PutMGenCall(k, v, p, Nil)
    \/ \E k \in Keys2 : DeleteMGenCall(k, Nil)
    \/ \E h \in Handles : SnapshotGenCall(h)
    \/ \E r \in LiveRecs : Droppable(r) /\ ReleaseGenCall(r)
    \/ \E r \in LiveRecs : Resume(r)
    \/ PoolGC

SpecBranch == InitBranch /\ [][BranchNext]_vars

----------------------------------------------------------------------------
(* The calls of the copy in adapter.go, statement by statement around       *)
(* snapRecordMutex: what a call does before Lock, between Lock and Unlock,  *)
(* and after Unlock are separate steps, and the steps of two threads        *)
(* interleave.                                                              *)

\* A call begins, within the bound.
Begun ==
    /\ ncalls < limit
    /\ ncalls' = ncalls + 1
    /\ UNCHANGED <<limit, bridge>>

\* A step of thread th that did the kinds of work of what.
Step(th, op, what) == [th |-> th, op |-> op, what |-> what, held |-> mu.holder = th]

\* PutM, its first statement: (*dest).put(key, value) walks and clones the
\* path; the result is kept in tp and old.
PutMWalk(key, value, priority) ==
    /\ mu.pc[Owner] = "idle"
    /\ cur # Nil
    /\ Begun
    /\ LET w == put(Mem(nodes, pool), imms[cur], key, value, priority, 1)
       IN /\ ~w.hung
          /\ nodes' = w.m.nodes
          /\ pool' = w.m.pool
          /\ imms' = Append(imms, w.tp)
          /\ mu' = [mu EXCEPT !.pc[Owner] = "lock",
                              !.job[Owner] = [NoJob EXCEPT !.op = "PutM",
                                                 !.tp = Len(imms) + 1, !.old = w.old,
                                                 !.key = key, !.value = value],
                              !.did = Step(Owner, "PutM", {"walk"})]
    /\ UNCHANGED <<cur, recs, slots, amap, last>>

\* DeleteM, its first statement: (*dest).del(key).
DeleteMWalk(key) ==
    /\ mu.pc[Owner] = "idle"
    /\ cur # Nil
    /\ Begun
    /\ LET w == del(Mem(nodes, pool), imms[cur], key, 1)
       IN /\ ~w.hung
          /\ nodes' = w.m.nodes
          /\ pool' = w.m.pool
          /\ imms' = IF w.isNew THEN Append(imms, w.tp) ELSE imms
          /\ mu' = [mu EXCEPT !.pc[Owner] = "lock",
                              !.job[Owner] = [NoJob EXCEPT !.op = "DeleteM",
                                                 !.tp = IF w.isNew THEN Len(imms) + 1
                                                        ELSE cur,
                                                 !.old = w.old, !.key = key],
                              !.did = Step(Owner, "DeleteM", {"walk"})]
    /\ UNCHANGED <<cur, recs, slots, amap, last>>

\* snapRecordMutex.Lock(): the thread waits until the mutex is free.
Lock(th) ==
    /\ mu.pc[th] = "lock"
    /\ mu.holder = 0
    /\ mu' = [mu EXCEPT !.holder = th, !.pc[th] = "crit", !.did = NoStep]
    /\ UNCHANGED <<nodes, pool, ncalls, limit, imms, cur, recs, slots, amap, last, bridge>>

\* snapRecordMutex.Unlock(): deferred to the return of the call, except in
\* Recycle, which goes on to walk the tree.
Unlock(th) ==
    /\ mu.pc[th] = "unlock"
    /\ mu.holder = th
    /\ mu' = [mu EXCEPT !.holder = 0,
                        !.pc[th] = IF mu.job[th].op = "Recycle" THEN "sweep"
                                   ELSE "idle",
                        !.job[th] = IF mu.job[th].op = "Recycle" THEN @ ELSE NoJob,
                        !.did = NoStep]
    /\ UNCHANGED <<nodes, pool, ncalls, limit, imms, cur, recs, slots, amap, last, bridge>>

\* PutM and DeleteM after Lock: snapCount, the loop over the old nodes, and
\* *dest = tp.
WriteLoop ==
    /\ mu.pc[Owner] = "crit"
    /\ mu.job[Owner].op \in {"PutM", "DeleteM"}
    /\ LET j == mu.job[Owner]
           w == [m |-> Mem(nodes, pool), tp |-> imms[j.tp], old |-> j.old,
                 isNew |-> j.tp # cur, hung |-> FALSE]
           r == recycleOrDefer(w, recs, slots, imms[cur])
       IN /\ ~r.hung
          /\ nodes' = r.m.nodes
          /\ pool' = r.m.pool
          /\ recs' = r.rs
          /\ cur' = j.tp
          /\ last' = [NoCall EXCEPT !.copy = "adapter", !.value = j.value,
                            !.before = Prior,
                            !.op = j.op, !.src = cur, !.res = j.tp,
                            !.key = j.key, !.was = amap[j.key], !.old = j.old,
                            !.put = r.m.put]
          /\ amap' = [amap EXCEPT ![j.key] = IF j.op = "PutM" THEN Stored(j.value)
                                            ELSE Absent]
          /\ mu' = [mu EXCEPT !.pc[Owner] = "unlock",
                              !.did = Step(Owner, j.op,
                                           {"list"}
                                           \cup (IF j.old # <<>> THEN {"compare"} ELSE {})
                                           \cup (IF r.m.put # <<>> THEN {"pool"} ELSE {}))]
    /\ UNCHANGED <<ncalls, limit, imms, slots, bridge>>

\* The snapshot records being made and the records being released.
Pending(op) == {th \in Threads : mu.job[th].op = op}

\* h.Snapshot() begins: its first statement is Lock.
SnapshotBegin(th, h) ==
    /\ mu.pc[th] = "idle"
    /\ Len(recs) + Cardinality(Pending("Snapshot")) < MaxSnaps
    /\ Begun
    /\ mu' = [mu EXCEPT !.pc[th] = "lock",
                        !.job[th] = [NoJob EXCEPT !.op = "Snapshot", !.h = h],
                        !.did = NoStep]
    /\ UNCHANGED <<nodes, pool, imms, cur, recs, slots, amap, last>>

\* Snapshot between Lock and Unlock.
SnapshotBody(th) ==
    /\ mu.pc[th] = "crit"
    /\ mu.job[th].op = "Snapshot"
    /\ SnapshotGenDo(mu.job[th].h)
    /\ mu' = [mu EXCEPT !.pc[th] = "unlock",
                        !.did = Step(th, "Snapshot", {"list"})]
    /\ UNCHANGED <<ncalls, limit, bridge>>

\* r.Release() begins: its first statement is Lock.  No record is released
\* twice.
ReleaseBegin(th, r) ==
    /\ mu.pc[th] = "idle"
    /\ \A o \in Pending("Release") : mu.job[o].rec # r
    /\ Begun
    /\ mu' = [mu EXCEPT !.pc[th] = "lock",
                        !.job[th] = [NoJob EXCEPT !.op = "Release", !.rec = r],
                        !.did = NoStep]
    /\ UNCHANGED <<nodes, pool, imms, cur, recs, slots, amap, last>>

\* Release between Lock and Unlock.
ReleaseBody(th) ==
    /\ mu.pc[th] = "crit"
    /\ mu.job[th].op = "Release"
    /\ ReleaseGenDo(mu.job[th].rec)
    /\ mu' = [mu EXCEPT !.pc[th] = "unlock",
                        !.did = Step(th, "Release",
                                     {"list"} \cup (IF last'.put # <<>> THEN {"pool"}
                                                    ELSE {}))]
    /\ UNCHANGED <<ncalls, limit, bridge>>

\* t.Recycle(excluded) begins: its first statement is Lock.
RecycleBegin(excluded) ==
    /\ mu.pc[Owner] = "idle"
    /\ cur # Nil
    /\ Begun
    /\ mu' = [mu EXCEPT !.pc[Owner] = "lock",
                        !.job[Owner] = [NoJob EXCEPT !.op = "Recycle",
                                           !.excluded = excluded],
                        !.did = NoStep]
    /\ UNCHANGED <<nodes, pool, imms, cur, recs, slots, amap, last>>

\* Recycle between Lock and Unlock: snapCount, and snapGen is set.
RecycleCount ==
    /\ mu.pc[Owner] = "crit"
    /\ mu.job[Owner].op = "Recycle"
    /\ LET sc == snapCountGen(recs, slots, imms[cur], mu.job[Owner].excluded)
       IN /\ ~sc.hung
          /\ mu' = [mu EXCEPT !.pc[Owner] = "unlock",
                              !.job[Owner].snapGen =
                                  IF sc.maxSnap # Nil THEN recs[sc.maxSnap].generation
                                  ELSE 0,
                              !.did = Step(Owner, "Recycle", {"list"})]
    /\ UNCHANGED <<nodes, pool, ncalls, limit, imms, cur, recs, slots, amap, last, bridge>>

\* Recycle after Unlock: the walk over the tree, the comparison of each
\* node's generation with snapGen, and the pool returns.
RecycleSweep ==
    /\ mu.pc[Owner] = "sweep"
    /\ LET t == imms[cur]
           m == recycleLoopGen(Mem(nodes, pool),
                               pushLeftSpine(nodes, t.root, <<>>, Len(nodes) + 1),
                               mu.job[Owner].snapGen, Len(nodes) + 1)
       IN /\ nodes' = m.nodes
          /\ pool' = m.pool
          /\ last' = [NoCall EXCEPT !.copy = "adapter", !.op = "Recycle",
                            !.src = cur, !.put = m.put,
                            !.excluded = mu.job[Owner].excluded]
          /\ mu' = [mu EXCEPT !.pc[Owner] = "idle",
                              !.job[Owner] = NoJob,
                              !.did = Step(Owner, "Recycle",
                                           {"walk"}
                                           \cup (IF t.root # Nil THEN {"compare"} ELSE {})
                                           \cup (IF m.put # <<>> THEN {"pool"} ELSE {}))]
    /\ cur' = Nil
    /\ UNCHANGED <<ncalls, limit, imms, recs, slots, amap, bridge>>

\* The owner writes, recycles and takes snapshots, the reader takes and
\* releases snapshots of the containers the owner published; on two keys
\* with one priority.
LockNext ==
    \/ \E k \in Keys2, v \in Values1, p \in Priority0 : PutMWalk(k, v, p)
    \/ \E k \in Keys2 : DeleteMWalk(k)
    \/ WriteLoop
    \/ \E th \in Threads : \E h \in Handles : SnapshotBegin(th, h)
    \/ \E th \in Threads : SnapshotBody(th)
    \/ \E th \in Threads : \E r \in LiveRecs : ReleaseBegin(th, r)
    \/ \E th \in Threads : ReleaseBody(th)
    \/ \E x \in Excludable : RecycleBegin(x)
    \/ RecycleCount
    \/ RecycleSweep
    \/ \E th \in Threads : Lock(th)
    \/ \E th \in Threads : Unlock(th)
    \/ PoolGC

SpecLock == Init /\ [][LockNext]_vars

----------------------------------------------------------------------------
(* The block-notification bridge of rpcclient/examples/lbcdblocknotify:    *)
(* start dials the stratum server, then handles the block-connected events *)
(* one after another; each event gets a cancelable context and starts its  *)
(* jobs as goroutines.  A context.Context is an index into ctxs, a         *)
(* goroutine started by go an index into jobs.  Durations are in seconds.  *)

\* The events a behaviour delivers, and the consecutive failures of one
\* retry loop, at most.
MaxEvents == 3
MaxFailures == 62

\* time.Second and the 60*time.Second of the two retry loops.
Second == 1
backoffCap == 60 * Second

\* The treap is not used by the bridge.
TreapIdle ==
    /\ mu = MuIdle
    /\ nodes = <<>>
    /\ pool = <<>>
    /\ ncalls = 0
    /\ limit = 0
    /\ imms = <<EmptyImmutable>>
    /\ cur = 1
    /\ recs = <<>>
    /\ slots = <<>>
    /\ amap = [k \in Keys |-> Absent]
    /\ last = NoCall

treapVars == <<nodes, pool, ncalls, limit, imms, cur, recs, slots, amap, last, mu>>

\* The last time.Sleep of the retry loop in progress: the loop, the number
\* of consecutive failures it had seen, and the duration.
NoSleep == [loop |-> "none", n |-> 0, secs |-> 0]

\* newBridge and the flags of main: whether a stratum server and a custom
\* command are configured.  start begins with the dial loop when there is a
\* stratum server, backoff := time.Second.
newBridge(stratum, customCmd) ==
    [stratum |-> stratum, customCmd |-> customCmd,
     pc |-> IF stratum THEN "dial" ELSE "recv",
     backoff |-> Second, fails |-> 0,
     events |-> 0,
     ctxs |-> <<>>, prevJobContext |-> Nil,
     wg |-> 0, jobs |-> <<>>,
     slept |-> NoSleep]

InitBridge ==
    /\ TreapIdle
    /\ \E stratum \in BOOLEAN, customCmd \in BOOLEAN :
           bridge = newBridge(stratum, customCmd)

\* The step of both retry loops: backoff grows by a second below the cap.
backoffNext(backoff) == IF backoff < backoffCap THEN backoff + Second ELSE backoff

\* start, the dial loop: dial failed; the loop sleeps backoff, then raises it.
DialFails ==
    /\ bridge.pc = "dial"
    /\ bridge.fails < MaxFailures
    /\ bridge' = [bridge EXCEPT !.fails = @ + 1,
                                !.slept = [loop |-> "dial", n |-> bridge.fails + 1,
                                           secs |-> bridge.backoff],
                                !.backoff = backoffNext(bridge.backoff)]
    /\ UNCHANGED treapVars

\* start, the dial loop: dial returned nil; the loop and its backoff end
\* and the event loop begins.
DialSucceeds ==
    /\ bridge.pc = "dial"
    /\ bridge' = [bridge EXCEPT !.pc = "recv", !.backoff = Second, !.fails = 0,
                                !.slept = NoSleep]
    /\ UNCHANGED treapVars

\* start, the event loop: an eventBlockConected is received and
\* handleFilteredBlockConnected is entered.
Receive ==
    /\ bridge.pc = "recv"
    /\ bridge.events < MaxEvents
    /\ bridge' = [bridge EXCEPT !.pc = "cancel", !.events = @ + 1]
    /\ UNCHANGED treapVars

cancelPrevBad(ctxs, prevJobContext) == ctxs

\* handleFilteredBlockConnected, "Cancel jobs on previous block":
\* prevJobCancel is called unless prevJobContext is nil or done.
cancelPrev(ctxs, prevJobContext) ==
    IF prevJobContext # Nil /\ ~ctxs[prevJobContext].cancelled
    THEN [ctxs EXCEPT ![prevJobContext].cancelled = TRUE]
    ELSE ctxs

CancelPrevious ==
    /\ bridge.pc = "cancel"
    /\ bridge' = [bridge EXCEPT !.ctxs = cancelPrev(bridge.ctxs, bridge.prevJobContext),
                                !.pc = "wait"]
    /\ UNCHANGED treapVars

\* handleFilteredBlockConnected, b.wg.Wait(): returns when the counter is 0.
WaitJobs ==
    /\ bridge.pc = "wait"
    /\ bridge.wg = 0
    /\ bridge' = [bridge EXCEPT !.pc = "spawn"]
    /\ UNCHANGED treapVars

\* A goroutine started by go: not yet running, its loop counters fresh.
Job(kind, ctx) == [kind |-> kind, ctx |-> ctx, pc |-> "go", backoff |-> Second,
                   fails |-> 0]

\* handleFilteredBlockConnected, the rest: a new context is made and saved
\* in prevJobContext, and the jobs are started with it.
StartJobs ==
    /\ bridge.pc = "spawn"
    /\ LET ctx == Len(bridge.ctxs) + 1
       IN bridge' = [bridge EXCEPT
                        !.ctxs = Append(@, [cancelled |-> FALSE]),
                        !.prevJobContext = ctx,
                        !.jobs = @ \o (IF bridge.customCmd THEN <<Job("cmd", ctx)>>
                                       ELSE <<>>)
                                   \o (IF bridge.stratum THEN <<Job("stratum", ctx)>>
                                       ELSE <<>>),
                        !.pc = "recv"]
    /\ UNCHANGED treapVars

\* stratumUpdateBlock and execCustomCommand, their first statement:
\* s.wg.Add(1).
JobAdd(j) ==
    /\ bridge.jobs[j].pc = "go"
    /\ bridge' = [bridge EXCEPT !.jobs[j].pc = "run", !.wg = @ + 1]
    /\ UNCHANGED treapVars

\* The job returns: the deferred s.wg.Done(); its retry loop and backoff
\* end.
JobDone(j) ==
    [bridge EXCEPT !.jobs[j].pc = "done", !.jobs[j].backoff = Second,
                   !.jobs[j].fails = 0, !.wg = @ - 1,
                   !.slept = IF bridge.jobs[j].kind = "stratum" THEN NoSleep ELSE @]

sendDoneBad(ctxs, ctx) == FALSE

\* stratumClient.send, its select: whether ctx.Done() is closed.
sendDone(ctxs, ctx) == ctxs[ctx].cancelled

\* stratumUpdateBlock: send finds the context done and returns its error;
\* the job returns.
SendCanceled(j) ==
    /\ bridge.jobs[j].kind = "stratum"
    /\ bridge.jobs[j].pc = "run"
    /\ sendDone(bridge.ctxs, bridge.jobs[j].ctx)
    /\ bridge' = JobDone(j)
    /\ UNCHANGED treapVars

\* stratumUpdateBlock: send finds the context not done and goes on to
\* c.conn.Write.
SendChecked(j) ==
    /\ bridge.jobs[j].kind = "stratum"
    /\ bridge.jobs[j].pc = "run"
    /\ ~sendDone(bridge.ctxs, bridge.jobs[j].ctx)
    /\ bridge' = [bridge EXCEPT !.jobs[j].pc = "write"]
    /\ UNCHANGED treapVars

\* stratumUpdateBlock: send wrote the message; the job returns.
SendSucceeds(j) ==
    /\ bridge.jobs[j].kind = "stratum"
    /\ bridge.jobs[j].pc = "write"
    /\ bridge' = JobDone(j)
    /\ UNCHANGED treapVars

\* stratumUpdateBlock: the write failed; retry raises backoff, then sleeps
\* backoff and dials again, and the loop calls send again.
SendFails(j) ==
    /\ bridge.jobs[j].kind = "stratum"
    /\ bridge.jobs[j].pc = "write"
    /\ bridge.jobs[j].fails < MaxFailures
    /\ bridge' = [bridge EXCEPT
                     !.jobs[j].pc = "run",
                     !.jobs[j].fails = @ + 1,
                     !.jobs[j].backoff = backoffNext(@),
                     !.slept = [loop |-> "send", n |-> bridge.jobs[j].fails + 1,
                                secs |-> backoffNext(bridge.jobs[j].backoff)]]
    /\ UNCHANGED treapVars

\* execCustomCommand: the command ended, or was killed when its context was
\* canceled, or was not found; the job returns.
CmdEnds(j) ==
    /\ bridge.jobs[j].kind = "cmd"
    /\ bridge.jobs[j].pc = "run"
    /\ bridge' = JobDone(j)
    /\ UNCHANGED treapVars

Jobs == 1..Len(bridge.jobs)

BridgeNext ==
    \/ DialFails
    \/ DialSucceeds
    \/ Receive
    \/ CancelPrevious
    \/ WaitJobs
    \/ StartJobs
    \/ \E j \in Jobs : JobAdd(j)
    \/ \E j \in Jobs : SendCanceled(j)
    \/ \E j \in Jobs : SendChecked(j)
    \/ \E j \in Jobs : SendSucceeds(j)
    \/ \E j \in Jobs : SendFails(j)
    \/ \E j \in Jobs : CmdEnds(j)

SpecBridge == InitBridge /\ [][BridgeNext]_vars

\* The bridge of a stratum server with no custom command: one goroutine
\* for each event.
InitStratum ==
    /\ TreapIdle
    /\ bridge = newBridge(TRUE, FALSE)

StratumNext ==
    \/ DialFails
    \/ DialSucceeds
    \/ Receive
    \/ CancelPrevious
    \/ WaitJobs
    \/ StartJobs
    \/ \E j \in Jobs : JobAdd(j)
    \/ \E j \in Jobs : SendCanceled(j)
    \/ \E j \in Jobs : SendChecked(j)
    \/ \E j \in Jobs : SendSucceeds(j)
    \/ \E j \in Jobs : SendFails(j)

\* A step of goroutine j: every step of a stratum job waits for nothing
\* but the scheduler, time.Sleep and dial, which return.
JobRuns(j) ==
    /\ j \in Jobs
    /\ \/ JobAdd(j)
       \/ SendCanceled(j)
       \/ SendChecked(j)
       \/ SendSucceeds(j)
       \/ SendFails(j)

\* That bridge under a fair scheduler: the handler goes on when it can, and
\* so does every goroutine.
SpecBridgeFair ==
    /\ InitStratum
    /\ [][StratumNext]_vars
    /\ WF_vars(CancelPrevious)
    /\ WF_vars(WaitJobs)
    /\ WF_vars(StartJobs)
    /\ \A j \in 1..MaxEvents : WF_vars(JobRuns(j))

----------------------------------------------------------------------------
(* Properties of the tree algorithms. *)

\* The path a search for key takes from root: the nodes compared with key.
RECURSIVE SearchPath(_, _, _, _)
SearchPath(ns, node, key, fuel) ==
    IF node = Nil \/ fuel = 0 THEN {}
    ELSE IF KeyLess(key, ns[node].key)
         THEN {node} \cup SearchPath(ns, ns[node].left, key, fuel - 1)
    ELSE IF KeyLess(ns[node].key, key)
         THEN {node} \cup SearchPath(ns, ns[node].right, key, fuel - 1)
    ELSE {node}

\* C3: in every container produced by Put, Delete, PutM and DeleteM, each
\* node's left subtree holds only smaller keys and its right subtree only
\* greater keys.
C3_BSTOrder == cur # Nil => BSTOrdered(nodes, imms[cur].root)

\* A DeleteM that removed the root of a three-key container and handed a
\* node to the pool; the two keys left are in order.
C3_Witness ==
    /\ cur # Nil
    /\ last.op = "DeleteM"
    /\ last.was # Absent
    /\ Len(last.old) = 1
    /\ last.put # <<>>
    /\ imms[cur].count = 2
    /\ nodes[imms[cur].root].left # Nil \/ nodes[imms[cur].root].right # Nil

\* C4: in every container produced by Put and Delete, each node's priority
\* is greater than or equal to its parent's.
C4_MinHeap == cur # Nil => MinHeap(nodes, imms[cur].root)

\* C5: Get gives the value of the latest Put that no Delete followed and
\* nil otherwise, Has is true for exactly those keys, Len is their number,
\* and a Put of a present key changes the value and not Len.
C5_MapRefinement ==
    cur # Nil =>
        /\ \A k \in Keys :
              /\ Get(nodes, imms[cur], k) = amap[k]
              /\ Has(nodes, imms[cur], k) <=> k \in Present(amap)
        /\ ImmLen(imms[cur]) = Cardinality(Present(amap))
        /\ (last.op = "Put" /\ last.was # Absent) =>
              ImmLen(imms[last.res]) = ImmLen(imms[last.src])

\* A Put that changed the value of a key of a two-key container.
C5_Witness ==
    /\ last.op = "Put"
    /\ last.was # Absent
    /\ last.was # amap[last.key]
    /\ ImmLen(imms[cur]) = 2

\* The children del promotes while a node with children l and r sinks: the
\* only child, or the right one when its priority is above the left one's
\* and the left one otherwise; the promoted child hands over its inner
\* child.
RECURSIVE SinkSet(_, _, _, _)
SinkSet(ns, l, r, fuel) ==
    IF (l = Nil /\ r = Nil) \/ fuel = 0 THEN {}
    ELSE IF r = Nil \/ (l # Nil /\ ~(ns[r].priority > ns[l].priority))
    THEN {l} \cup SinkSet(ns, ns[l].right, r, fuel - 1)
    ELSE {r} \cup SinkSet(ns, l, ns[r].left, fuel - 1)

\* The modified path of a Delete of key: the search path of the key and the
\* children promoted while its node sinks.
DeletePath(ns, root, key) ==
    LET path == SearchPath(ns, root, key, Len(ns) + 1)
        target == {n \in path : ns[n].key = key}
    IN path \cup UNION {SinkSet(ns, ns[n].left, ns[n].right, Len(ns) + 1) : n \in target}

\* C6: Put and Delete write to no node of the container they are called
\* on, which keeps its pairs, Len and Size; the nodes of it that are not in
\* the result are exactly those of the modified path: the search path of the
\* key, and for Delete also the children promoted while the node sinks.
\* Every other node is the same node in the result.
C6_ImmutableFrame ==
    [][(ncalls' # ncalls /\ last'.op \in {"Put", "Delete"}) =>
          LET t == imms[cur]
              R == Reach(nodes, t.root)
              lost == R \ Reach(nodes', imms'[cur'].root)
          IN /\ \A n \in R : nodes'[n] = nodes[n]
             /\ imms'[cur] = imms[cur]
             /\ View(nodes', imms'[cur]) = View(nodes, t)
             /\ last'.op = "Put" =>
                    lost = SearchPath(nodes, t.root, last'.key, Len(nodes) + 1)
             /\ (last'.op = "Delete" /\ cur' # cur) =>
                    lost = DeletePath(nodes, t.root, last'.key)
             /\ cur' = cur => lost = {}
    ]_vars

\* A Delete of the root of a three-key container, the root having both
\* children: both were promoted and replaced.
C6_Witness ==
    /\ last.op = "Delete"
    /\ ImmLen(imms[last.src]) = 3
    /\ ImmLen(imms[last.res]) = 2
    /\ nodes[imms[last.src].root].key = last.key
    /\ nodes[imms[last.src].root].left # Nil
    /\ nodes[imms[last.src].root].right # Nil
    /\ Reach(nodes, imms[last.src].root) \cap Reach(nodes, imms[last.res].root) = {}

\* C7: count is the number of nodes reachable from root and totalSize the
\* sum of their sizes.
C7_CountSize ==
    cur # Nil =>
        /\ IsTree(nodes, imms[cur].root)
        /\ imms[cur].count = Cardinality(Reach(nodes, imms[cur].root))
        /\ imms[cur].totalSize = SumSize(nodes, Reach(nodes, imms[cur].root))

\* A PutM that replaced a value by one of another length, in a two-key
\* container.
C7_Witness ==
    /\ last.op = "PutM"
    /\ last.was # Absent
    /\ len(last.was) # len(amap[last.key])
    /\ imms[cur].count = 2

\* C8: ForEach calls the visitor with the pairs in ascending key order, up
\* to and including the call at which the visitor returns false, and
\* changes no node and no container.
C8_ForEach ==
    [][(ncalls' # ncalls /\ last'.op = "ForEach") =>
          LET all == Ascending(amap, Present(amap))
              n == IF last'.stopAt = 0 \/ last'.stopAt > Len(all)
                   THEN Len(all) ELSE last'.stopAt
          IN /\ last'.calls = SubSeq(all, 1, n)
             /\ nodes' = nodes
             /\ imms' = imms
    ]_vars

\* A traversal of a container of three keys that the visitor stopped at its
\* second call.
C8_Witness ==
    /\ last.op = "ForEach"
    /\ last.stopAt = 2
    /\ Len(last.calls) = 2
    /\ ImmLen(imms[cur]) = 3

\* C10, as claimed: every container returned by Put or Delete has a
\* generation above that of the container the call was made on.
C10_GenerationGrows ==
    last.op \in {"Put", "Delete"} =>
        imms[last.res].generation > imms[last.src].generation

\* C10, amended: every container returned by Put, or by Delete of a key the
\* container holds, has a generation above that of the container the call
\* was made on; Delete of a missing key returns the container it was called
\* on.
C10_GenerationGrowsOnChange ==
    /\ (last.op = "Put" \/ (last.op = "Delete" /\ last.was # Absent)) =>
           imms[last.res].generation > imms[last.src].generation
    /\ (last.op = "Delete" /\ last.was = Absent) => last.res = last.src

\* A Delete of a key the container holds.
C10_Witness ==
    /\ last.op = "Delete"
    /\ last.was # Absent
    /\ ImmLen(imms[last.src]) = 2

----------------------------------------------------------------------------
(* Properties of the snapshot registry and of recycling. *)

\* C1: a node is handed to the node pool only at a moment when no
\* unreleased snapshot record has a generation greater than or equal to the
\* generation the node carried when it was abandoned, the flush of a released
\* record's deferred nodes included.
C1_RecycleSafety ==
    \A i \in 1..Len(last.put) :
        \A r \in LiveRecs : recs[r].generation < last.put[i].generation

\* C2: until its record is released, every node reachable from the handle a
\* snapshot was taken on stays out of the pool and keeps its key, value and
\* child links, so Get, Has and ForEach through the handle give the pairs of
\* the moment of the snapshot.
C2_SnapshotIsolation ==
    \A r \in LiveRecs :
        LET t == imms[recs[r].handle]
            was == recs[r].heap
        IN /\ \A n \in Reach(was, t.root) :
                 /\ n \notin Range(pool)
                 /\ nodes[n].key = was[n].key
                 /\ nodes[n].value = was[n].value
                 /\ nodes[n].left = was[n].left
                 /\ nodes[n].right = was[n].right
           /\ \A k \in Keys :
                 /\ Get(nodes, t, k) = Get(was, t, k)
                 /\ Has(nodes, t, k) = Has(was, t, k)
           /\ ForEach(nodes, t, 0) = ForEach(was, t, 0)

\* C9: Delete of a key the container does not hold returns the container
\* itself and clones no node; DeleteM of such a key leaves the destination
\* as it was, hands no node to the pool and defers none.
C9_DeleteAbsent ==
    [][(ncalls' # ncalls /\ last'.op \in {"Delete", "DeleteM"}
           /\ amap[last'.key] = Absent) =>
          /\ ~Has(nodes, imms[cur], last'.key)
          /\ cur' = cur
          /\ imms' = imms
          /\ nodes' = nodes
          /\ pool' = pool
          /\ recs' = recs
          /\ last'.put = <<>>
    ]_vars

\* A DeleteM of a missing key on a container that holds a key and has a
\* live snapshot record.
C9_Witness ==
    /\ last.op = "DeleteM"
    /\ last.was = Absent
    /\ imms[cur].count = 1
    /\ LiveRecs # {}

----------------------------------------------------------------------------
(* Properties of the mutable writes. *)

\* C11, as claimed: after PutM or DeleteM the generation of the destination
\* equals its generation before the call.
C11_GenerationKept ==
    last.op \in {"PutM", "DeleteM"} =>
        imms[last.res].generation = imms[last.src].generation

\* C11, amended: PutM and DeleteM of database/internal/treap/immutable.go
\* leave the generation of the destination as it was; those of the copy in
\* adapter.go raise it by one when they replace the container, that is every
\* PutM and every DeleteM of a key the container holds, and leave it when
\* DeleteM finds no key.
C11_GenerationPerCopy ==
    last.op \in {"PutM", "DeleteM"} =>
        /\ last.copy = "treap" =>
               imms[last.res].generation = imms[last.src].generation
        /\ last.copy = "adapter" =>
               imms[last.res].generation =
                   imms[last.src].generation
                       + (IF last.op = "PutM" \/ last.was # Absent THEN 1 ELSE 0)

\* A second PutM in a row of database/internal/treap/immutable.go, made
\* while a snapshot record is live.
C11_Witness ==
    /\ last.op = "PutM"
    /\ last.copy = "treap"
    /\ last.before.op = "PutM"
    /\ LiveRecs # {}
    /\ ImmLen(imms[cur]) = 2

\* C12, as claimed: for every container t, key k and value v,
\* t.Put(k, v).Delete(k) does not hold k and has the length of t.
C12_PutDeleteLen ==
    (last.op = "Delete" /\ last.before.op = "Put" /\ last.before.key = last.key) =>
        /\ ~Has(nodes, imms[last.res], last.key)
        /\ ImmLen(imms[last.res]) = ImmLen(imms[last.before.src])

\* C12, amended: t.Put(k, v).Delete(k) does not hold k; its length is that
\* of t when t did not hold k, and one less when t held k.
C12_PutDeleteLenByPresence ==
    (last.op = "Delete" /\ last.before.op = "Put" /\ last.before.key = last.key) =>
        LET t == imms[last.before.src]
        IN /\ ~Has(nodes, imms[last.res], last.key)
           /\ Get(nodes, imms[last.res], last.key) = Absent
           /\ ImmLen(imms[last.res]) =
                  ImmLen(t) - (IF Has(nodes, t, last.key) THEN 1 ELSE 0)

\* A Put of a key and the Delete of it, made on a container that holds
\* another key and not this one.
C12_Witness ==
    /\ last.op = "Delete"
    /\ last.before.op = "Put"
    /\ last.before.key = last.key
    /\ ~Has(nodes, imms[last.before.src], last.key)
    /\ ImmLen(imms[last.before.src]) = 1
    /\ ImmLen(imms[last.res]) = 1

\* C13: after Put or PutM of a key with a nil value, Has of the key is true
\* and Get of it gives an empty value that is not nil, while Get of a key
\* that was never stored or was deleted gives nil.
C13_NilStoredEmpty ==
    cur # Nil =>
        /\ (last.op \in {"Put", "PutM"} /\ last.value.nil) =>
               /\ Has(nodes, imms[cur], last.key)
               /\ Get(nodes, imms[cur], last.key) = emptySlice
               /\ ~Get(nodes, imms[cur], last.key).nil
               /\ \A k \in Keys :
                      amap[k] = Absent =>
                          Get(nodes, imms[cur], k) # Get(nodes, imms[cur], last.key)
        /\ \A k \in Keys :
               amap[k] = Absent =>
                   /\ ~Has(nodes, imms[cur], k)
                   /\ Get(nodes, imms[cur], k).nil

\* A PutM of a nil value, made after the other key was deleted by DeleteM.
C13_Witness ==
    /\ last.op = "PutM"
    /\ last.value.nil
    /\ last.before.op = "DeleteM"
    /\ last.before.key # last.key
    /\ ImmLen(imms[cur]) = 1

\* C14: the container PutM leaves in the destination has the pairs, Len and
\* Size of the container Put gives for the same container, key and value,
\* and the one DeleteM leaves those of the container Delete gives, whatever
\* the records of the registry and the nodes of the pool are.
C14_MutableAsImmutable ==
    [][(ncalls' # ncalls /\ last'.op \in {"PutM", "DeleteM"}) =>
          \E p \in Priorities :
              LET w == IF last'.op = "PutM"
                       THEN Put(Mem(nodes, pool), imms[cur], last'.key, last'.value, p)
                       ELSE Delete(Mem(nodes, pool), imms[cur], last'.key)
              IN /\ View(nodes', imms'[cur']) = View(w.m.nodes, w.tp)
                 /\ ImmLen(imms'[cur']) = ImmLen(w.tp)
                 /\ Size(imms'[cur']) = Size(w.tp)
    ]_vars

\* A PutM of a new key that follows two PutM of the other key: the node the
\* second one handed to the pool was handed out again, so three nodes exist
\* where four were asked for.
C14_Witness ==
    /\ last.op = "PutM"
    /\ last.before.op = "PutM"
    /\ last.was = Absent
    /\ ncalls = 3
    /\ ImmLen(imms[cur]) = 2
    /\ Len(nodes) = 3
    /\ last.put # <<>>

\* C15: a PutM that follows a PutM of the same key and value on the same
\* destination leaves it with the same pairs, Len and Size.
C15_PutMIdempotent ==
    [][(/\ ncalls' # ncalls
        /\ last'.op = "PutM" /\ last.op = "PutM"
        /\ last'.key = last.key /\ last'.value = last.value
        /\ last'.src = last.res) =>
          /\ View(nodes', imms'[cur']) = View(nodes, imms[cur])
          /\ ImmLen(imms'[cur']) = ImmLen(imms[cur])
          /\ Size(imms'[cur']) = Size(imms[cur])
          /\ Get(nodes', imms'[cur'], last'.key) = Stored(last'.value)
    ]_vars

\* A second PutM of a key with the same one-byte value, in a container of
\* two keys.
C15_Witness ==
    /\ last.op = "PutM"
    /\ last.before.op = "PutM"
    /\ last.before.key = last.key
    /\ last.before.value = last.value
    /\ ~last.value.nil
    /\ ImmLen(imms[cur]) = 2

----------------------------------------------------------------------------
(* Properties of the list of snapshot records. *)

\* The records reached from record a by next, a left out.
RECURSIVE After(_, _, _)
After(rs, a, fuel) ==
    IF rs[a].next = Nil \/ fuel = 0 THEN {}
    ELSE {rs[a].next} \cup After(rs, rs[a].next, fuel - 1)

\* C16: among the unreleased records, A.next = B exactly when B.prev = A,
\* and no record is reached from itself by next.
C16_SnapshotLinkage ==
    /\ \A a \in LiveRecs : \A b \in LiveRecs :
           recs[a].next = b <=> recs[b].prev = a
    /\ \A a \in LiveRecs : a \notin After(recs, a, Len(recs) + 1)

\* The record a container's snap leads to: the record itself in
\* database/internal/treap/immutable.go, the one its slot holds in adapter.go.
Anchor(t) ==
    IF t.snap = Nil THEN Nil
    ELSE IF last.copy = "adapter" THEN slots[t.snap]
    ELSE t.snap

\* The records the two loops of snapCount visit from the anchor of t.
Visited(t) ==
    IF Anchor(t) = Nil THEN {}
    ELSE Range(walkPrev(recs, Anchor(t), Len(recs) + 1).seq)
         \cup Range(walkNext(recs, recs[Anchor(t)].next, Len(recs) + 1).seq)

\* What snapCount(nil) returns on t: count, maxSnap and minSnap, the last
\* two nil in database/internal/treap/immutable.go.
Counted(t) ==
    IF last.copy = "adapter" THEN snapCountGen(recs, slots, t, Nil)
    ELSE [count |-> snapCount(recs, t, Nil), maxSnap |-> Nil, minSnap |-> Nil,
          hung |-> FALSE]

\* C17: snapCount on a container visits every unreleased record taken on
\* the container or on a container it was derived from, and does not report
\* zero while there is one.  The containers are derived one from another in
\* the order they were made.
C17_TraversalComplete ==
    \A h \in Handles : \A r \in LiveRecs :
        recs[r].handle <= h =>
            /\ r \in Visited(imms[h])
            /\ Counted(imms[h]).count > 0

\* C18: no held container's anchor and no unreleased record's prev or next
\* is a released record, and snapCount on a held container neither visits a
\* released record nor gives one as maxSnap or minSnap.
C18_ReleasedUnreachable ==
    \A r \in 1..Len(recs) :
        recs[r].released =>
            /\ \A a \in LiveRecs : recs[a].prev # r /\ recs[a].next # r
            /\ \A h \in Handles :
                   /\ Anchor(imms[h]) # r
                   /\ r \notin Visited(imms[h])
                   /\ Counted(imms[h]).maxSnap # r
                   /\ Counted(imms[h]).minSnap # r

----------------------------------------------------------------------------
(* Properties of the recycling of PutM and DeleteM. *)

\* The nodes a call handed to the pool.
Pooled(call) == {call.put[i].node : i \in 1..Len(call.put)}

\* C19: when the excluded record is the only record snapCount reaches from
\* the destination, PutM and DeleteM hand every node of the old path to the
\* pool and defer none.
C19_ExcludedLeftOut ==
    [][(/\ ncalls' # ncalls
        /\ last'.op \in {"PutM", "DeleteM"}
        /\ last'.excluded # Nil
        /\ Visited(imms[cur]) = {last'.excluded}) =>
          /\ Range(last'.old) \subseteq Pooled(last')
          /\ Range(last'.old) \subseteq Range(pool')
          /\ \A r \in 1..Len(recs) : recs'[r].recycle = recs[r].recycle
    ]_vars

\* C20: when no snapshot record is live, PutM and DeleteM hand every node of
\* the old path to the pool and defer none.
C20_NoSnapshotRecyclesAll ==
    [][(/\ ncalls' # ncalls
        /\ last'.op \in {"PutM", "DeleteM"}
        /\ LiveRecs = {}) =>
          /\ Range(last'.old) \subseteq Pooled(last')
          /\ Range(last'.old) \subseteq Range(pool')
          /\ \A r \in 1..Len(recs) : recs'[r].recycle = recs[r].recycle
    ]_vars

----------------------------------------------------------------------------
(* Properties of the deferred-recycle chain. *)

\* The nodes PutM and DeleteM deferred to record r.
Deferred(rs, r) == {rs[r].dgen[i].node : i \in 1..Len(rs[r].dgen)}

\* C21: Release of a record hands every node deferred to it to the pool, and
\* no node is deferred to a record that has been released.
C21_ReleaseFlushes ==
    [][ncalls' # ncalls =>
          /\ last'.op = "Release" =>
                 /\ Deferred(recs, last'.rec) \subseteq Pooled(last')
                 /\ Deferred(recs, last'.rec) \subseteq Range(pool')
          /\ \A r \in 1..Len(recs) :
                 recs[r].released =>
                     /\ recs'[r].recycle = recs[r].recycle
                     /\ Deferred(recs', r) = Deferred(recs, r)
    ]_vars

\* C22: when a record owning deferred nodes is released, none of those
\* nodes is reachable from the handle of another unreleased record, whether
\* that record was taken before or after the deferral.
C22_DeferredOutliveSnapshots ==
    [][(ncalls' # ncalls /\ last'.op = "Release") =>
          \A q \in LiveRecs \ {last'.rec} :
              Reach(recs[q].heap, imms[recs[q].handle].root)
                  \cap Deferred(recs, last'.rec) = {}
    ]_vars

----------------------------------------------------------------------------
(* Properties of the registry mutex. *)

\* C23: every step of Snapshot, Release, PutM, DeleteM and Recycle that
\* walks a tree, reads the snapshot list, compares a generation or returns a
\* node to the pool is made by a thread that holds the mutex.
C23_MutexHeldThroughout == mu.did.what # {} => mu.did.held

----------------------------------------------------------------------------
(* Properties of the nodes a write allocates and shares. *)

\* The nodes of the container a write returned that the container it was
\* called on does not have: the clones and the inserted node.
Allocated(ns, t, ns1, t1) == Reach(ns1, t1.root) \ Reach(ns, t.root)

\* C24: every node a write allocates, clone or inserted node, carries the
\* generation of the container the write returns.
C24_NodesCarryGeneration ==
    [][(ncalls' # ncalls /\ last'.op \in {"Put", "Delete", "PutM", "DeleteM"}
           /\ cur' # cur) =>
          \A n \in Allocated(nodes, imms[cur], nodes', imms'[cur']) :
              nodes'[n].generation = imms'[cur'].generation
    ]_vars

\* The nodes below node: those of its two subtrees.
Below(ns, node) == Reach(ns, ns[node].left) \cup Reach(ns, ns[node].right)

\* C25, as claimed: a Delete that removes a key replaces the target and its
\* ancestors only; every node below the target is the same node in the
\* container it returns.
C25_DeleteClonesPathOnly ==
    [][(ncalls' # ncalls /\ last'.op = "Delete" /\ cur' # cur) =>
          LET t == imms[cur]
              path == SearchPath(nodes, t.root, last'.key, Len(nodes) + 1)
              target == get(nodes, t, last'.key)
          IN /\ Reach(nodes, t.root) \ Reach(nodes', imms'[cur'].root) = path
             /\ Below(nodes, target) \subseteq Reach(nodes', imms'[cur'].root)
    ]_vars

\* C25, amended: a Delete that removes a key clones the target, its
\* ancestors and each child promoted while the target sinks, and nothing
\* else: one node is allocated for each of them, and every other node below
\* the target is the same node, unchanged, in the container it returns.
C25_DeleteClonesPathAndPromoted ==
    [][(ncalls' # ncalls /\ last'.op = "Delete" /\ cur' # cur) =>
          LET t == imms[cur]
              path == SearchPath(nodes, t.root, last'.key, Len(nodes) + 1)
              target == get(nodes, t, last'.key)
              promoted == SinkSet(nodes, nodes[target].left, nodes[target].right,
                                  Len(nodes) + 1)
              kept == Reach(nodes', imms'[cur'].root)
          IN /\ promoted \subseteq Below(nodes, target)
             /\ Reach(nodes, t.root) \ kept = path \cup promoted
             /\ Len(nodes') - Len(nodes) =
                    IF imms'[cur'].root = Nil THEN 0
                    ELSE Cardinality(path) + Cardinality(promoted)
             /\ \A n \in Below(nodes, target) \ promoted :
                    n \in kept /\ nodes'[n] = nodes[n]
    ]_vars

\* A Delete of the root of a three-key container: its child was promoted
\* and cloned, its grandchild is shared with the container returned.
C25_Witness ==
    /\ last.op = "Delete"
    /\ ImmLen(imms[last.src]) = 3
    /\ ImmLen(imms[last.res]) = 2
    /\ nodes[imms[last.src].root].key = last.key
    /\ Cardinality(Reach(nodes, imms[last.src].root)
                       \cap Reach(nodes, imms[last.res].root)) = 1

----------------------------------------------------------------------------
(* Properties of the block-notification bridge. *)

\* The job contexts that are not canceled.
Uncanceled == {c \in 1..Len(bridge.ctxs) : ~bridge.ctxs[c].cancelled}

\* C26: at no time are the job contexts of two events uncanceled, and
\* whenever a job of an event has been started the context of every earlier
\* event is canceled.
C26_PreviousJobsCanceled ==
    /\ Cardinality(Uncanceled) <= 1
    /\ \A j \in Jobs :
           \A c \in 1..(bridge.jobs[j].ctx - 1) : bridge.ctxs[c].cancelled

\* The jobs of the second event were started while a job of the first,
\* started by go before the second event arrived, had not yet run: it runs
\* now, beside a job of the second event, and its context is canceled.
C26_Witness ==
    /\ Len(bridge.ctxs) = 2
    /\ bridge.ctxs[1].cancelled
    /\ ~bridge.ctxs[2].cancelled
    /\ \E i \in Jobs, j \in Jobs :
           /\ bridge.jobs[i].ctx = 1 /\ bridge.jobs[i].pc = "run"
           /\ bridge.jobs[j].ctx = 2 /\ bridge.jobs[j].pc = "run"

\* C27: in the dial loop and in the send-retry loop alike, the wait after
\* the n-th consecutive failure is n seconds, and 60 seconds from the 60th
\* on.
C27_BackoffFromOneToSixty ==
    bridge.slept.loop # "none" =>
        bridge.slept.secs = Min2(bridge.slept.n * Second, backoffCap)

----------------------------------------------------------------------------
(* Properties of the recycle rule and of Snapshot and Recycle. *)

\* The nodes of a recycle chain, from its head along next.
RECURSIVE Chain(_, _, _)
Chain(ns, node, fuel) ==
    IF node = Nil \/ fuel = 0 THEN <<>>
    ELSE <<node>> \o Chain(ns, ns[node].next, fuel - 1)

\* The highest and the lowest generation among a set of records.
MaxGen(rs, S) == CHOOSE g \in {rs[r].generation : r \in S} :
                     \A r \in S : rs[r].generation <= g
MinGen(rs, S) == CHOOSE g \in {rs[r].generation : r \in S} :
                     \A r \in S : rs[r].generation >= g

\* C28: PutM and DeleteM of adapter.go hand an abandoned node to the pool
\* when no record is counted or the node's generation is above the highest
\* generation of the counted records; otherwise they stamp it
\* recycleGeneration and prepend it to the chain of one counted record of
\* the lowest generation and to no other chain.  The counted records are
\* those snapCount reaches from the destination, excluded left out.
C28_RecycleRule ==
    [][(/\ ncalls' # ncalls
        /\ last'.op \in {"PutM", "DeleteM"}
        /\ last'.copy = "adapter") =>
          LET counted == Visited(imms[cur]) \ {last'.excluded}
          IN \A n \in Range(last'.old) :
                 IF counted = {} \/ nodes[n].generation > MaxGen(recs, counted)
                 THEN /\ n \in Pooled(last')
                      /\ \A r \in 1..Len(recs) :
                             n \notin Range(Chain(nodes', recs'[r].recycle,
                                                  Len(nodes') + 1))
                 ELSE /\ n \notin Pooled(last')
                      /\ nodes'[n].generation = recycleGeneration
                      /\ \E r \in counted :
                             /\ recs[r].generation = MinGen(recs, counted)
                             /\ \A q \in 1..Len(recs) :
                                    n \in Range(Chain(nodes', recs'[q].recycle,
                                                      Len(nodes') + 1)) <=> q = r
                             /\ \E i \in 1..Len(last'.old) :
                                    SubSeq(Chain(nodes', recs'[r].recycle,
                                                 Len(nodes') + 1), i + 1,
                                           i + Len(Chain(nodes, recs[r].recycle,
                                                         Len(nodes) + 1)))
                                        = Chain(nodes, recs[r].recycle, Len(nodes) + 1)
    ]_vars

\* Put, and Snapshot and Release of either copy: the containers reach
\* generations above 0 in both copies before a snapshot is taken.
StampNext ==
    \/ \E k \in Keys2, v \in Values1, p \in Priority0 : PutCall(k, v, p)
    \/ \E h \in Handles : UsesTreap /\ SnapshotCall(h)
    \/ \E r \in LiveRecs : UsesTreap /\ ReleaseCall(r)
    \/ \E h \in Handles : UsesAdapter /\ SnapshotGenCall(h)
    \/ \E r \in LiveRecs : UsesAdapter /\ ReleaseGenCall(r)

SpecStamp == InitDeep /\ [][StampNext]_vars

\* The record the snap anchor of container t references: the record itself
\* in immutable.go, the record held by the slot in adapter.go.
AnchorRec(copy, sl, t) ==
    IF copy = "adapter"
    THEN IF t.snap # Nil THEN sl[t.snap] ELSE Nil
    ELSE t.snap

\* What Snapshot does to the records apart from the generation stamp: one
\* new record, which the anchor references and the call returns, linked
\* after the record the anchor referenced before.
SnapshotLinked(h, r) ==
    LET p == AnchorRec(last'.copy, slots, imms[h])
    IN /\ r = Len(recs) + 1
       /\ Len(recs') = Len(recs) + 1
       /\ ~recs'[r].released
       /\ AnchorRec(last'.copy, slots', imms'[h]) = r
       /\ IF p # Nil
          THEN recs'[p].next = r /\ recs'[r].prev = p
          ELSE recs'[r].prev = Nil

RecycleNext ==
    \/ \E k \in Keys1, v \in Values1, p \in Priority0 : PutCall(k, v, p)
    \/ \E k \in Keys1, v \in Values1, p \in Priority0 : PutMGenCall(k, v, p, Nil)
    \/ \E h \in Handles : SnapshotGenCall(h)
    \/ \E r \in LiveRecs : ReleaseGenCall(r)
    \/ \E x \in Excludable : RecycleGenCall(x)
    \/ PoolGC

SpecRecycle == InitBranch /\ [][RecycleNext]_vars

\* C30: Recycle(excluded) on t hands to the pool exactly the nodes
\* reachable from t's root that are not marked recycleGeneration and whose
\* generation is above the highest generation of the unreleased records
\* other than excluded, all unmarked nodes when there is no such record,
\* and hands each of them over once.
C30_RecycleExactly ==
    [][(ncalls' # ncalls /\ last'.op = "Recycle") =>
          LET t == imms[last'.src]
              live == LiveRecs \ {last'.excluded}
              qualifying ==
                  {n \in Reach(nodes, t.root) :
                       /\ nodes[n].generation # recycleGeneration
                       /\ live # {} => nodes[n].generation > MaxGen(recs, live)}
          IN /\ Pooled(last') = qualifying
             /\ Len(last'.put) = Cardinality(qualifying)
    ]_vars

----------------------------------------------------------------------------
(* Properties of the rotations of del and put. *)

\* The shape of the tree under node: key, priority, left shape, right
\* shape; the empty tuple for no node.
RECURSIVE ShapeFrom(_, _, _)
ShapeFrom(ns, node, fuel) ==
    IF node = Nil \/ fuel = 0 THEN <<>>
    ELSE <<ns[node].key, ns[node].priority,
           ShapeFrom(ns, ns[node].left, fuel - 1),
           ShapeFrom(ns, ns[node].right, fuel - 1)>>

Shape(ns, node) == ShapeFrom(ns, node, Len(ns) + 1)

\* The shape left by a node that sinks below its children l and r: the
\* right child rises exactly when both exist and its priority is strictly
\* above the left one's, the left child (or the only child) otherwise; the
\* node goes on sinking on the side the risen child came from and is gone
\* when it has no child.
RECURSIVE SunkShape(_, _, _, _)
SunkShape(ns, l, r, fuel) ==
    IF (l = Nil /\ r = Nil) \/ fuel = 0 THEN <<>>
    ELSE IF l # Nil /\ r # Nil /\ ns[r].priority > ns[l].priority
    THEN <<ns[r].key, ns[r].priority,
           SunkShape(ns, l, ns[r].left, fuel - 1), Shape(ns, ns[r].right)>>
    ELSE IF l # Nil
    THEN <<ns[l].key, ns[l].priority,
           Shape(ns, ns[l].left), SunkShape(ns, ns[l].right, r, fuel - 1)>>
    ELSE <<ns[r].key, ns[r].priority,
           SunkShape(ns, l, ns[r].left, fuel - 1), Shape(ns, ns[r].right)>>

\* The shape of the tree under node once the node of key has sunk and is
\* detached.
RECURSIVE DeletedShape(_, _, _, _)
DeletedShape(ns, node, key, fuel) ==
    IF node = Nil \/ fuel = 0 THEN <<>>
    ELSE IF KeyLess(key, ns[node].key)
    THEN <<ns[node].key, ns[node].priority,
           DeletedShape(ns, ns[node].left, key, fuel - 1), Shape(ns, ns[node].right)>>
    ELSE IF KeyLess(ns[node].key, key)
    THEN <<ns[node].key, ns[node].priority,
           Shape(ns, ns[node].left), DeletedShape(ns, ns[node].right, key, fuel - 1)>>
    ELSE SunkShape(ns, ns[node].left, ns[node].right, Len(ns) + 1)

\* C31: each sink step of Delete promotes the right child exactly when both
\* children exist and the right one's priority is strictly greater, the
\* left child otherwise (equal priorities go left; an only child is the one
\* promoted); the loop ends when the target has no child, and the target is
\* detached: no node of the returned container holds the key.
C31_SinkPromotes ==
    [][(ncalls' # ncalls /\ last'.op = "Delete" /\ Has(nodes, imms[cur], last'.key)) =>
          /\ Shape(nodes', imms'[cur'].root)
                 = DeletedShape(nodes, imms[cur].root, last'.key, Len(nodes) + 1)
          /\ \A n \in Reach(nodes', imms'[cur'].root) : nodes'[n].key # last'.key
    ]_vars

\* A Delete of a node with two children of equal priority: the left child
\* took its place, the right child hangs below it.
C31_Witness ==
    /\ last.op = "Delete"
    /\ imms[last.src].root # Nil
    /\ imms[last.res].root # Nil
    /\ LET x == imms[last.src].root
           y == imms[last.res].root
       IN /\ nodes[x].key = last.key
          /\ nodes[x].left # Nil /\ nodes[x].right # Nil
          /\ nodes[nodes[x].left].priority = nodes[nodes[x].right].priority
          /\ nodes[y].key = nodes[nodes[x].left].key
          /\ nodes[y].right # Nil
          /\ nodes[nodes[y].right].key = nodes[nodes[x].right].key

\* The shape of the tree under node once a node of key and priority is
\* linked where the search for key ends and rises: at each ancestor, from
\* the lowest up, the risen subtree's root is rotated above the ancestor
\* exactly when its priority is strictly less than the ancestor's.
RECURSIVE InsertedShape(_, _, _, _, _)
InsertedShape(ns, node, key, priority, fuel) ==
    IF node = Nil \/ fuel = 0 THEN <<key, priority, <<>>, <<>>>>
    ELSE IF KeyLess(key, ns[node].key)
    THEN LET sub == InsertedShape(ns, ns[node].left, key, priority, fuel - 1)
         IN IF sub[2] < ns[node].priority
            THEN <<sub[1], sub[2], sub[3],
                   <<ns[node].key, ns[node].priority, sub[4], Shape(ns, ns[node].right)>>>>
            ELSE <<ns[node].key, ns[node].priority, sub, Shape(ns, ns[node].right)>>
    ELSE LET sub == InsertedShape(ns, ns[node].right, key, priority, fuel - 1)
         IN IF sub[2] < ns[node].priority
            THEN <<sub[1], sub[2],
                   <<ns[node].key, ns[node].priority, Shape(ns, ns[node].left), sub[3]>>,
                   sub[4]>>
            ELSE <<ns[node].key, ns[node].priority, Shape(ns, ns[node].left), sub>>

\* The number of ancestors the new node of a Put rose above: the nodes of
\* the search path whose priority is strictly greater than its priority.
RisenAbove(ns, root, key, priority) ==
    Cardinality({a \in SearchPath(ns, root, key, Len(ns) + 1) :
                     priority < ns[a].priority})

\* C32: when t is BST-ordered and a min-heap, Put of a new key with any
\* priority returns a container that is both; the new node was rotated
\* above a parent only while its priority was strictly less than the
\* parent's, and it is the root when it rose above every ancestor.
C32_PutPreservesHeap ==
    [][(/\ ncalls' # ncalls
        /\ last'.op = "Put"
        /\ ~Has(nodes, imms[cur], last'.key)
        /\ BSTOrdered(nodes, imms[cur].root)
        /\ MinHeap(nodes, imms[cur].root)) =>
          LET t == imms[cur]
              tp == imms'[cur']
              new == get(nodes', tp, last'.key)
              path == SearchPath(nodes, t.root, last'.key, Len(nodes) + 1)
          IN /\ BSTOrdered(nodes', tp.root)
             /\ MinHeap(nodes', tp.root)
             /\ new # Nil
             /\ Shape(nodes', tp.root)
                    = InsertedShape(nodes, t.root, last'.key, nodes'[new].priority,
                                    Len(nodes) + 1)
             /\ Cardinality(SearchPath(nodes', tp.root, last'.key, Len(nodes') + 1))
                    = 1 + Cardinality(path)
                        - RisenAbove(nodes, t.root, last'.key, nodes'[new].priority)
             /\ (\A a \in path : nodes'[new].priority < nodes[a].priority)
                    <=> tp.root = new
    ]_vars

\* A Put of a new key into a heap of two nodes of priority 1, the new node
\* drawing priority 0: it rose above both and is the root.
C32_Witness ==
    /\ last.op = "Put"
    /\ ImmLen(imms[last.src]) = 2
    /\ ImmLen(imms[last.res]) = 3
    /\ MinHeap(nodes, imms[last.src].root)
    /\ BSTOrdered(nodes, imms[last.src].root)
    /\ nodes[imms[last.src].root].priority = 1
    /\ nodes[imms[last.res].root].key = last.key
    /\ nodes[imms[last.res].root].priority = 0
    /\ Cardinality(SearchPath(nodes, imms[last.src].root, last.key, Len(nodes) + 1)) = 2

\* C33: when handleFilteredBlockConnected starts the jobs of a block, every
\* job started for an earlier block has returned.
C33_PreviousJobsDone ==
    [][Len(bridge'.jobs) > Len(bridge.jobs) =>
          \A j \in Jobs : bridge.jobs[j].pc = "done"]_vars

\* The stratum jobs whose context is canceled.
CanceledJobs ==
    {j \in Jobs : /\ bridge.jobs[j].kind = "stratum"
                  /\ bridge.ctxs[bridge.jobs[j].ctx].cancelled}

\* A stratum job whose context is canceled when it calls send returns.
CanceledSendReturns ==
    [][\A j \in CanceledJobs :
           (bridge.jobs[j].pc = "run" /\ bridge'.jobs[j] # bridge.jobs[j]) =>
               bridge'.jobs[j].pc = "done"]_vars

\* The handler gets past b.wg.Wait() and starts the jobs of the new block.
HandlerGoesOn == (bridge.pc = "wait") ~> (bridge.pc = "recv")

----------------------------------------------------------------------------
(* Properties of the threads, the generations and the disposal of nodes. *)

\* C35: whatever Snapshot another thread makes while Recycle runs, Recycle
\* hands to the pool no node whose generation is less than or equal to the
\* generation of a record that is live, and not the excluded one, at the
\* moment the node is handed over.
C35_RecycleHonoursSnapshots ==
    [][(mu.pc[Owner] = "sweep" /\ mu'.pc[Owner] = "idle") =>
          \A n \in Pooled(last') :
              \A r \in LiveRecs \ {last'.excluded} :
                  nodes[n].generation > recs[r].generation
    ]_vars

\* C36: after any sequence of Put, Delete, PutM and DeleteM every node
\* reachable from the root of the container has a generation less than or
\* equal to the container's generation.
C36_NodeGenerationBounded ==
    cur # Nil =>
        \A n \in Reach(nodes, imms[cur].root) :
            nodes[n].generation <= imms[cur].generation

\* Whether no element occurs twice in the sequence s.
NoRepeat(s) == \A i, j \in 1..Len(s) : s[i] = s[j] => i = j

\* The deferred-recycle chain of record r, followed for one node more than
\* the heap holds: longer than the heap when it has a cycle.
ChainOf(r) == Chain(nodes, recs[r].recycle, Len(nodes) + 1)

\* C37: no node is in the pool twice, no node is on a deferred-recycle
\* chain of a live record twice or on two such chains or on one and in the
\* pool, and every chain ends.
C37_DisposedOnce ==
    /\ NoRepeat(pool)
    /\ \A r \in LiveRecs :
           /\ NoRepeat(ChainOf(r))
           /\ Len(ChainOf(r)) <= Len(nodes)
           /\ Range(ChainOf(r)) \cap Range(pool) = {}
           /\ \A q \in LiveRecs \ {r} : Range(ChainOf(r)) \cap Range(ChainOf(q)) = {}

\* C38: no node on the old-path stack that put or del returned to a mutable
\* write is reachable from the root of the container the same call
\* returned.
C38_AbandonedNotInResult ==
    [][(ncalls' # ncalls /\ last'.op \in {"PutM", "DeleteM"}) =>
          Range(last'.old) \cap Reach(nodes', imms'[cur'].root) = {}
    ]_vars

====
